---- MODULE Spec2Model ----
(***************************************************************************)
(* A model of rez/resources.py: the registry of resource classes keyed by  *)
(* config version, the path-pattern compiler and matcher, the discovery    *)
(* walk over a file system, and the load/validate pipeline of the package  *)
(* resources.                                                              *)
(*                                                                         *)
(* Strings of the program (paths, names, versions) are sequences of        *)
(* one-character strings, so that the regular expressions of the source    *)
(* are matched character by character.                                     *)
(***************************************************************************)
EXTENDS Integers, Sequences, FiniteSets, TLC

VARIABLES
    configs,        \* _configs: config_version -> list of resource classes
    children,       \* Resource._children: class -> list of classes
    reg,            \* the last register_resource call and its outcome
    packages_path,  \* settings.packages_path
    fs,             \* the file system: a sequence of entries
    listdir_rev,    \* os.listdir order: the order of fs, or its reverse
    compiled,       \* the class attributes _compiled_pattern / _compiled_full_pattern
    res             \* the last lookup/load call and its outcome

vars == <<configs, children, reg, packages_path, fs, listdir_rev, compiled, res>>

-----------------------------------------------------------------------------
(* Bounds of the model *)

\* the config versions register_resource is called with are 0..MaxConfigVersion
MaxConfigVersion == 1
\* number of register_resource calls made after the import of the module
MaxExtraRegistrations == 2

-----------------------------------------------------------------------------
(* Characters and strings *)

Lower == {"a","b","c","d","e","f","g","h","i","j","k","l","m",
          "n","o","p","q","r","s","t","u","v","w","x","y","z"}
Upper == {"A","B","C","D","E","F","G","H","I","J","K","L","M",
          "N","O","P","Q","R","S","T","U","V","W","X","Y","Z"}
Digit == {"0","1","2","3","4","5","6","7","8","9"}

Sep == <<"/">>      \* os.path.sep
Dot == <<".">>

S_package      == <<"p","a","c","k","a","g","e">>
S_yaml         == <<"y","a","m","l">>
S_py           == <<"p","y">>
S_txt          == <<"t","x","t">>
S_metadata     == <<".","m","e","t","a","d","a","t","a">>
S_release_time == <<"r","e","l","e","a","s","e","_","t","i","m","e",".","t","x","t">>
S_info         == <<"i","n","f","o",".","t","x","t">>
S_release_yaml == <<"r","e","l","e","a","s","e",".","y","a","m","l">>

RECURSIVE JoinWith(_, _)
\* sep.join(parts)
JoinWith(sep, parts) ==
    IF parts = <<>> THEN <<>>
    ELSE IF Len(parts) = 1 THEN parts[1]
    ELSE parts[1] \o sep \o JoinWith(sep, Tail(parts))

IsPrefixAt(lit, s, i) ==
    /\ i + Len(lit) - 1 <= Len(s)
    /\ \A k \in 1..Len(lit) : s[i + k - 1] = lit[k]

-----------------------------------------------------------------------------
(* The resource classes *)

None == "None"

Classes == {"PackagesRoot", "NameFolder", "VersionFolder", "MetadataFolder",
            "ReleaseTimestampResource", "ReleaseInfoResource",
            "ReleaseDataResource", "VersionlessPackageResource",
            "VersionedPackageResource", "CombinedPackageFamilyResource",
            "CombinedPackageResource", "BuiltPackageResource"}

\* the key strings of the classes
K_folder_packages_root == <<"f","o","l","d","e","r",".","p","a","c","k","a","g","e","s","_","r","o","o","t">>
K_folder_name == <<"f","o","l","d","e","r",".","n","a","m","e">>
K_folder_version == <<"f","o","l","d","e","r",".","v","e","r","s","i","o","n">>
K_folder_metadata == <<"f","o","l","d","e","r",".","m","e","t","a","d","a","t","a">>
K_release_timestamp == <<"r","e","l","e","a","s","e",".","t","i","m","e","s","t","a","m","p">>
K_release_info == <<"r","e","l","e","a","s","e",".","i","n","f","o">>
K_release_data == <<"r","e","l","e","a","s","e",".","d","a","t","a">>
K_package_versionless == <<"p","a","c","k","a","g","e",".","v","e","r","s","i","o","n","l","e","s","s">>
K_package_versioned == <<"p","a","c","k","a","g","e",".","v","e","r","s","i","o","n","e","d">>
K_package_family_combined == <<"p","a","c","k","a","g","e","_","f","a","m","i","l","y",".","c","o","m","b","i","n","e","d">>
K_package_combined == <<"p","a","c","k","a","g","e",".","c","o","m","b","i","n","e","d">>
K_package_built == <<"p","a","c","k","a","g","e",".","b","u","i","l","t">>

\* the `key` attribute of each class
Key(c) ==
    CASE c = "PackagesRoot"                   -> K_folder_packages_root
      [] c = "NameFolder"                     -> K_folder_name
      [] c = "VersionFolder"                  -> K_folder_version
      [] c = "MetadataFolder"                 -> K_folder_metadata
      [] c = "ReleaseTimestampResource"       -> K_release_timestamp
      [] c = "ReleaseInfoResource"            -> K_release_info
      [] c = "ReleaseDataResource"            -> K_release_data
      [] c = "VersionlessPackageResource"     -> K_package_versionless
      [] c = "VersionedPackageResource"       -> K_package_versioned
      [] c = "CombinedPackageFamilyResource"  -> K_package_family_combined
      [] c = "CombinedPackageResource"        -> K_package_combined
      [] c = "BuiltPackageResource"           -> K_package_built

\* the `parent_resource` attribute of each class
ParentResource(c) ==
    CASE c = "PackagesRoot"                  -> None
      [] c = "NameFolder"                    -> "PackagesRoot"
      [] c = "VersionFolder"                 -> "NameFolder"
      [] c = "MetadataFolder"                -> "VersionFolder"
      [] c = "ReleaseTimestampResource"      -> "MetadataFolder"
      [] c = "ReleaseInfoResource"           -> "MetadataFolder"
      [] c = "ReleaseDataResource"           -> "VersionFolder"
      [] c = "VersionlessPackageResource"    -> "NameFolder"
      [] c = "VersionedPackageResource"      -> "VersionFolder"
      [] c = "CombinedPackageFamilyResource" -> "PackagesRoot"
      [] c = "CombinedPackageResource"       -> "CombinedPackageFamilyResource"
      [] c = "BuiltPackageResource"          -> None

-----------------------------------------------------------------------------
(* The registry *)

ConfigVersions == 0..MaxConfigVersion

RegistryKeys(cfgs, v) == {Key(cfgs[v][i]) : i \in 1..Len(cfgs[v])}

\* register_resource without its duplicate-key check
RegisterResourceNoCheck(cfgs, chl, v, c) ==
    [err      |-> None,
     configs  |-> [cfgs EXCEPT ![v] = Append(@, c)],
     children |-> IF ParentResource(c) # None
                  THEN [chl EXCEPT ![ParentResource(c)] = Append(@, c)]
                  ELSE chl]

\* register_resource that rejects a class whose parent is not yet registered
RegisterResourceParentChecked(cfgs, chl, v, c) ==
    IF Key(c) \in RegistryKeys(cfgs, v)
       \/ (ParentResource(c) # None
           /\ \A i \in 1..Len(cfgs[v]) : cfgs[v][i] # ParentResource(c))
    THEN [err |-> "ResourceError", configs |-> cfgs, children |-> chl]
    ELSE RegisterResourceNoCheck(cfgs, chl, v, c)

\* register_resource(config_version, resource): the outcome and the registry
\* after the call
RegisterResource(cfgs, chl, v, c) ==
    IF Key(c) \in RegistryKeys(cfgs, v)
    THEN [err |-> "ResourceError", configs |-> cfgs, children |-> chl]
    ELSE [err      |-> None,
          configs  |-> [cfgs EXCEPT ![v] = Append(@, c)],
          children |-> IF ParentResource(c) # None
                       THEN [chl EXCEPT ![ParentResource(c)] = Append(@, c)]
                       ELSE chl]

\* the register_resource calls made when the module is imported, in order
ModuleRegistrations ==
    << <<0, "VersionedPackageResource">>,
       <<0, "VersionlessPackageResource">>,
       <<0, "BuiltPackageResource">>,
       <<0, "ReleaseInfoResource">>,
       <<0, "ReleaseTimestampResource">>,
       <<0, "ReleaseDataResource">>,
       <<0, "NameFolder">>,
       <<0, "VersionFolder">>,
       <<0, "CombinedPackageFamilyResource">>,
       <<0, "CombinedPackageResource">> >>

EmptyRegistry ==
    [err      |-> None,
     configs  |-> [v \in ConfigVersions |-> <<>>],
     children |-> [c \in Classes |-> <<>>]]

RECURSIVE RegisterAll(_, _)
RegisterAll(st, calls) ==
    IF calls = <<>> THEN st
    ELSE RegisterAll(RegisterResource(st.configs, st.children,
                                      calls[1][1], calls[1][2]),
                     Tail(calls))

\* the registry once the module is imported
ImportedRegistry == RegisterAll(EmptyRegistry, ModuleRegistrations)

-----------------------------------------------------------------------------
(* Path patterns *)

\* A path pattern is a sequence of tokens: literal text (var = "") or a
\* placeholder in braces such as {name} (var = "name", text = the raw text).
Lit(text) == [var |-> "", text |-> text]
Var(name, text) == [var |-> name, text |-> text]

T_search_path == Var("search_path", <<"{","s","e","a","r","c","h","_","p","a","t","h","}">>)
T_name        == Var("name", <<"{","n","a","m","e","}">>)
T_version     == Var("version", <<"{","v","e","r","s","i","o","n","}">>)
T_ext         == Var("ext", <<"{","e","x","t","}">>)

\* classes whose `path_pattern` attribute is not None
HasPathPattern(c) == c # "BuiltPackageResource"

\* the `path_pattern` attribute of each class
PathPattern(c) ==
    CASE c = "PackagesRoot"                  -> <<T_search_path>>
      [] c = "NameFolder"                    -> <<T_name>>
      [] c = "VersionFolder"                 -> <<T_version>>
      [] c = "MetadataFolder"                -> <<Lit(S_metadata)>>
      [] c = "ReleaseTimestampResource"      -> <<Lit(S_release_time)>>
      [] c = "ReleaseInfoResource"           -> <<Lit(S_info)>>
      [] c = "ReleaseDataResource"           -> <<Lit(S_release_yaml)>>
      [] c = "VersionlessPackageResource"    -> <<Lit(S_package \o Dot), T_ext>>
      [] c = "VersionedPackageResource"      -> <<Lit(S_package \o Dot), T_ext>>
      [] c = "CombinedPackageFamilyResource" -> <<T_name, Lit(Dot), T_ext>>
      [] c = "CombinedPackageResource"       -> <<T_name, Lit(Dot), T_ext>>
      [] c = "BuiltPackageResource"          -> <<>>

FolderClasses == {"PackagesRoot", "NameFolder", "VersionFolder", "MetadataFolder"}

\* the `is_file` attribute of each class
IsFile(c) == c \notin FolderClasses

\* the names of the `variable_regex` attribute of each class
VariableRegex(c) ==
    IF IsFile(c) THEN {"version", "name", "ext"} ELSE {"version", "name"}

\* the keys of metadata_loaders
MetadataLoaders == {S_py, S_yaml, S_txt}

\* the classes a class attribute of c is looked up in (c, then its bases)
Mro(c) ==
    CASE c = "CombinedPackageResource" ->
             <<"CombinedPackageResource", "CombinedPackageFamilyResource">>
      [] c = "BuiltPackageResource" ->
             <<"BuiltPackageResource", "VersionedPackageResource">>
      [] OTHER -> <<c>>

RECURSIVE Parents(_)
\* cls.parents(): the classes above c, topmost first
Parents(c) ==
    IF ParentResource(c) = None THEN <<>>
    ELSE Append(Parents(ParentResource(c)), ParentResource(c))

NameChar(ch) == ch \in Lower \cup Upper \cup Digit \cup {"_"}

\* PACKAGE_NAME_REGSTR matches the whole of s
MatchesName(s) ==
    /\ Len(s) >= 1
    /\ s[1] \in Lower \cup Upper \cup {"_"}
    /\ \A k \in 2..Len(s) : NameChar(s[k])

\* VERSION_REGSTR matches the whole of s
MatchesVersion(s) ==
    /\ Len(s) >= 1
    /\ \A k \in 1..Len(s) : NameChar(s[k]) \/ s[k] \in {".", "-"}
    /\ NameChar(s[1]) /\ NameChar(s[Len(s)])
    /\ \A k \in 1..(Len(s) - 1) : NameChar(s[k]) \/ NameChar(s[k + 1])

\* the regular expression of group `var` matches the whole of s
GroupMatches(var, roots, s) ==
    CASE var = "name"        -> MatchesName(s)
      [] var = "version"     -> MatchesVersion(s)
      [] var = "ext"         -> s \in MetadataLoaders
      [] var = "search_path" -> \E r \in 1..Len(roots) : roots[r] = s

\* _expand_pattern: the placeholders cls knows become named groups, everything
\* else is literal text; the roots are those configured when it is called
ExpandPattern(c, pattern, roots) ==
    [elems |-> [k \in 1..Len(pattern) |->
                   IF pattern[k].var \in VariableRegex(c) \cup {"search_path"}
                   THEN pattern[k]
                   ELSE Lit(pattern[k].text)],
     roots |-> roots]

GroupNames(rx) == {rx.elems[k].var : k \in 1..Len(rx.elems)} \ {""}

\* re.compile refuses a pattern that names a group twice
CompileFails(rx) ==
    \E j, k \in 1..Len(rx.elems) :
        j < k /\ rx.elems[j].var # "" /\ rx.elems[j].var = rx.elems[k].var

NoMatch == [m |-> FALSE]
EmptyVars == [x \in {} |-> <<>>]

\* the characters the regular expression of group `var` can consume
GroupChar(var, ch) ==
    CASE var = "name"    -> NameChar(ch)
      [] var = "version" -> NameChar(ch) \/ ch \in {".", "-"}
      [] var = "ext"     -> ch \in Lower

RECURSIVE RunEnd(_, _, _)
\* the last position of the longest run of such characters of s from i
RunEnd(var, s, i) ==
    IF i > Len(s) \/ ~GroupChar(var, s[i]) THEN i - 1 ELSE RunEnd(var, s, i + 1)

RECURSIVE MatchFrom(_, _, _, _)
RECURSIVE TryRoots(_, _, _, _, _)
RECURSIVE TryEnds(_, _, _, _, _)

\* the search_path alternation: the first root, in order from r, that matches
\* at i and lets the rest of the pattern match
TryRoots(rx, k, s, i, r) ==
    IF r > Len(rx.roots) THEN NoMatch
    ELSE IF ~IsPrefixAt(rx.roots[r], s, i) THEN TryRoots(rx, k, s, i, r + 1)
    ELSE LET rest == MatchFrom(rx, k + 1, s, i + Len(rx.roots[r])) IN
         IF rest.m
         THEN [m |-> TRUE, vars |-> (rx.elems[k].var :> rx.roots[r]) @@ rest.vars]
         ELSE TryRoots(rx, k, s, i, r + 1)

\* a greedy group: the longest text s[i..j], j from `last` down, that the
\* group matches and that lets the rest of the pattern match
TryEnds(rx, k, s, i, last) ==
    IF last < i THEN NoMatch
    ELSE IF ~GroupMatches(rx.elems[k].var, rx.roots, SubSeq(s, i, last))
    THEN TryEnds(rx, k, s, i, last - 1)
    ELSE LET rest == MatchFrom(rx, k + 1, s, last + 1) IN
         IF rest.m
         THEN [m |-> TRUE,
               vars |-> (rx.elems[k].var :> SubSeq(s, i, last)) @@ rest.vars]
         ELSE TryEnds(rx, k, s, i, last - 1)

\* `$`: the end of the string, or the place just before a newline that ends it
AtEnd(s, i) == i = Len(s) + 1 \/ (i = Len(s) /\ s[i] = "\n")

\* reg.match of the elements k.. of rx against s from position i, up to `$`
MatchFrom(rx, k, s, i) ==
    IF k > Len(rx.elems)
    THEN IF AtEnd(s, i) THEN [m |-> TRUE, vars |-> EmptyVars] ELSE NoMatch
    ELSE LET e == rx.elems[k] IN
         IF e.var = ""
         THEN IF IsPrefixAt(e.text, s, i)
              THEN MatchFrom(rx, k + 1, s, i + Len(e.text))
              ELSE NoMatch
         ELSE IF e.var = "search_path"
         THEN TryRoots(rx, k, s, i, 1)
         ELSE TryEnds(rx, k, s, i, RunEnd(e.var, s, i))

-----------------------------------------------------------------------------
(* The compiled patterns kept on the classes *)

NotCompiled == [elems |-> <<>>, roots |-> <<>>, set |-> FALSE]

EmptyCompiled == [c \in Classes |-> [own |-> NotCompiled, full |-> NotCompiled]]

\* getattr(cls, class_storage): the attribute of the first class of the mro
\* that has it
RECURSIVE LookupCompiled(_, _, _)
LookupCompiled(cache, mro, storage) ==
    IF mro = <<>> THEN NotCompiled
    ELSE IF cache[mro[1]][storage].set THEN cache[mro[1]][storage]
    ELSE LookupCompiled(cache, Tail(mro), storage)

\* _parse_pattern(cls, filepath, pattern, class_storage)
ParsePattern(c, filepath, pattern, storage, cache, roots) ==
    LET found == LookupCompiled(cache, Mro(c), storage) IN
    IF ~found.set
    THEN LET rx == ExpandPattern(c, pattern, roots) IN
         IF CompileFails(rx)
         THEN [err |-> "re.error", match |-> NoMatch, compiled |-> cache]
         ELSE [err |-> None,
               match |-> MatchFrom(rx, 1, filepath, 1),
               compiled |-> [cache EXCEPT ![c][storage] =
                                [elems |-> rx.elems, roots |-> rx.roots,
                                 set |-> TRUE]]]
    ELSE [err |-> None,
          match |-> MatchFrom(found, 1, filepath, 1),
          compiled |-> cache]

\* _parse_filepart(cls, filepath); the caller has checked cls.path_pattern
ParseFilepart(c, filepath, cache, roots) ==
    ParsePattern(c, filepath, PathPattern(c), "own", cache, roots)

\* the joined path_pattern of c and all of its parents
FullPattern(c) ==
    LET hierarchy == Append(Parents(c), c)
    IN JoinWith(<<Lit(Sep)>>, [k \in 1..Len(hierarchy) |-> PathPattern(hierarchy[k])])

\* _parse_filepath(cls, filepath)
ParseFilepath(c, filepath, cache, roots) ==
    ParsePattern(c, filepath, FullPattern(c), "full", cache, roots)

Instance(c, path, variables) == [cls |-> c, path |-> path, variables |-> variables]
NoInstance == [cls |-> None]

\* cls.from_path(path)
FromPath(c, path, cache, roots) ==
    IF ~HasPathPattern(c)
    THEN [err |-> "ResourceError", inst |-> NoInstance, compiled |-> cache]
    ELSE LET r == ParseFilepath(c, path, cache, roots) IN
         IF r.err # None
         THEN [err |-> r.err, inst |-> NoInstance, compiled |-> r.compiled]
         ELSE IF ~r.match.m
         THEN [err |-> "ResourceError", inst |-> NoInstance, compiled |-> r.compiled]
         ELSE [err |-> None, inst |-> Instance(c, path, r.match.vars),
               compiled |-> r.compiled]

-----------------------------------------------------------------------------
(* Main entry points: lookup by file path *)

RECURSIVE Fnmatch(_, _)
\* fnmatch(name, pat): `*` matches any text, `?` any one character
Fnmatch(name, pat) ==
    IF pat = <<>> THEN name = <<>>
    ELSE IF pat[1] = "*"
    THEN \E k \in 0..Len(name) : Fnmatch(SubSeq(name, k + 1, Len(name)), Tail(pat))
    ELSE IF name = <<>> THEN FALSE
    ELSE (pat[1] = "?" \/ pat[1] = name[1]) /\ Fnmatch(Tail(name), Tail(pat))

\* The resource_keys argument: None, a list of key patterns, or one string.
\* `items` is what iterating over the argument yields: the patterns of a
\* list, the characters of a string.
NoKeys == [kind |-> "none", items |-> <<>>]
KeyList(pats) == [kind |-> "list", items |-> pats]
KeyStr(s) == [kind |-> "str", items |-> [k \in 1..Len(s) |-> <<s[k]>>]]

\* list_resource_classes(config_version, keys); _configs.get gives None for
\* a config version nothing was registered under
ListResourceClasses(cfgs, v, keys) ==
    LET absent == v \notin DOMAIN cfgs \/ cfgs[v] = <<>>
        Keep(c) == \E k \in 1..Len(keys.items) : Fnmatch(Key(c), keys.items[k])
    IN IF keys.items # <<>>
       THEN IF absent
            THEN [err |-> "TypeError", classes |-> <<>>]
            ELSE [err |-> None, classes |-> SelectSeq(cfgs[v], Keep)]
       ELSE [err |-> None, classes |-> IF absent THEN <<>> ELSE cfgs[v]]

RECURSIVE LastFromPath(_, _, _, _)
\* the loop of get_resource run over the candidate classes from the last one
LastFromPath(classes, path, cache, roots) ==
    IF classes = <<>>
    THEN [err |-> "ResourceError", inst |-> NoInstance, compiled |-> cache]
    ELSE LET r == FromPath(classes[Len(classes)], path, cache, roots) IN
         IF r.err = "ResourceError"
         THEN LastFromPath(SubSeq(classes, 1, Len(classes) - 1), path,
                           r.compiled, roots)
         ELSE r

RECURSIVE FirstFromPath(_, _, _, _)
\* the loop of get_resource over the candidate classes: the first class whose
\* from_path does not raise ResourceError
FirstFromPath(classes, path, cache, roots) ==
    IF classes = <<>>
    THEN [err |-> "ResourceError", inst |-> NoInstance, compiled |-> cache]
    ELSE LET r == FromPath(classes[1], path, cache, roots) IN
         IF r.err = "ResourceError"
         THEN FirstFromPath(Tail(classes), path, r.compiled, roots)
         ELSE r

\* get_resource(config_version, filepath=path, resource_keys=keys)
GetResourceByPath(cfgs, v, path, keys, cache, roots) ==
    LET lr == ListResourceClasses(cfgs, v, keys) IN
    IF lr.err # None
    THEN [err |-> lr.err, inst |-> NoInstance, compiled |-> cache]
    ELSE IF lr.classes = <<>>
    THEN [err |-> "AssertionError", inst |-> NoInstance, compiled |-> cache]
    ELSE FirstFromPath(lr.classes, path, cache, roots)

-----------------------------------------------------------------------------
(* The values the calls of the model are made with *)

\* number of lookup calls in one behaviour
MaxCalls == 1

S_foo == <<"f","o","o">>
S_1_0 == <<"1",".","0">>
R_r   == <<"/","r">>
R_s   == <<"/","s">>

\* the values of settings.packages_path
RootChoices == {<<R_r>>, <<R_r, R_s>>}

ValidNames    == {S_foo}
ValidVersions == {S_1_0, S_package \o Dot \o S_yaml}
ValidExts     == {S_yaml, S_txt}

SeqRange(seq) == {seq[k] : k \in 1..Len(seq)}

PatternVars(pattern) == {pattern[k].var : k \in 1..Len(pattern)} \ {""}

\* the assignments of valid values to the placeholders of c's full pattern
Bindings(c, roots) ==
    LET pvars == PatternVars(FullPattern(c))
    IN {[x \in pvars |-> full[x]] :
           full \in [search_path : SeqRange(roots), name : ValidNames,
                     version : ValidVersions, ext : ValidExts]}

RECURSIVE Substitute(_, _)
\* the text of a pattern with each placeholder replaced by its value
Substitute(pattern, b) ==
    IF pattern = <<>> THEN <<>>
    ELSE (IF pattern[1].var = "" THEN pattern[1].text ELSE b[pattern[1].var])
         \o Substitute(Tail(pattern), b)

PatternClasses == {c \in Classes : HasPathPattern(c)}

\* the (config_version, resource_keys) arguments of the lookups by path
PathLookupArgs == {<<0, NoKeys>>, <<0, KeyList(<<K_package_combined>>)>>,
                   <<1, NoKeys>>}

-----------------------------------------------------------------------------
(* Lookups by file path *)

InitFixedRegistry ==
    /\ configs = ImportedRegistry.configs
    /\ children = ImportedRegistry.children
    /\ reg = [n |-> 0, version |-> 0, class |-> None, err |-> None]

InitPath ==
    /\ InitFixedRegistry
    /\ packages_path \in RootChoices
    /\ fs = <<>>
    /\ listdir_rev = FALSE
    /\ compiled = EmptyCompiled
    /\ res = [op |-> "none", n |-> 0]

\* c.from_path(P), P made from the full pattern of class t
CallFromPath(c, t, b) ==
    /\ res.n < MaxCalls
    /\ LET path == Substitute(FullPattern(t), b)
           r == FromPath(c, path, compiled, packages_path)
       IN /\ compiled' = r.compiled
          /\ res' = [op |-> "from_path", n |-> res.n + 1, cls |-> c, path |-> path,
                     t |-> t, b |-> b, err |-> r.err, inst |-> r.inst]
    /\ UNCHANGED <<configs, children, reg, packages_path, fs, listdir_rev>>

\* get_resource(v, filepath=P, resource_keys=keys), P made from the full
\* pattern of class t
CallGetResourceByPath(v, t, b, keys) ==
    /\ res.n < MaxCalls
    /\ LET path == Substitute(FullPattern(t), b)
           r == GetResourceByPath(configs, v, path, keys, compiled, packages_path)
       IN /\ compiled' = r.compiled
          /\ res' = [op |-> "get_resource", n |-> res.n + 1, version |-> v,
                     path |-> path, keys |-> keys,
                     t |-> t, b |-> b, err |-> r.err, inst |-> r.inst]
    /\ UNCHANGED <<configs, children, reg, packages_path, fs, listdir_rev>>

NextPath ==
    \/ \E c \in Classes :
         \E t \in SeqRange(Mro(c)) \cap PatternClasses :
            \E b \in Bindings(t, packages_path) : CallFromPath(c, t, b)
    \/ \E a \in PathLookupArgs, t \in PatternClasses :
         \E b \in Bindings(t, packages_path) :
            CallGetResourceByPath(a[1], t, b, a[2])

SpecPath == InitPath /\ [][NextPath]_vars

\* P is the full pattern of class c with valid values in its placeholders
IsInstanceOfPattern(c, path, roots) ==
    \E b \in Bindings(c, roots) : Substitute(FullPattern(c), b) = path

\* the registered classes, in registration order, whose full pattern the path
\* is an instance of and whose full pattern names no placeholder twice
MatchingClasses(path) ==
    LET Matches(c) ==
           /\ HasPathPattern(c)
           /\ \A j, k \in 1..Len(FullPattern(c)) :
                 (j < k /\ FullPattern(c)[j].var # "")
                    => FullPattern(c)[j].var # FullPattern(c)[k].var
           /\ IsInstanceOfPattern(c, path, packages_path)
    IN SelectSeq(configs[0], Matches)

GetResourceNoKeys ==
    res.op = "get_resource" /\ res.version = 0 /\ res.keys = NoKeys

\* C3 as claimed: get_resource on a path made from T's full pattern returns T
\* with the substituted values as its variables, also when the path is an
\* instance of another class's full pattern
C3_AsClaimed ==
    (GetResourceNoKeys /\ res.t \in SeqRange(configs[0]))
    => (res.err = None /\ res.inst.cls = res.t /\ res.inst.variables = res.b)

\* C3, amended: get_resource on a path made from T's full pattern returns
\* an instance of the first class, in registration order, whose full pattern
\* the path is an instance of, with the values that pattern captures from the
\* path (T and the substituted values when T is that class); a class whose
\* joined pattern repeats a placeholder (package.combined) never matches, and
\* when no class matches the call fails with ResourceError
C3_FirstMatchWins ==
    (GetResourceNoKeys /\ res.t \in SeqRange(configs[0]))
    => LET cands == MatchingClasses(res.path) IN
       IF cands = <<>>
       THEN res.err = "ResourceError"
       ELSE /\ res.err = None
            /\ res.inst.cls = cands[1]
            /\ res.inst.path = res.path
            /\ res.inst.variables \in Bindings(cands[1], packages_path)
            /\ Substitute(FullPattern(cands[1]), res.inst.variables) = res.path
            /\ (cands[1] = res.t => res.inst.variables = res.b)

\* a path made for folder.version that package.versionless, registered
\* earlier, matches too
C3_Witness ==
    /\ GetResourceNoKeys
    /\ res.t = "VersionFolder"
    /\ res.err = None
    /\ res.inst.cls = "VersionlessPackageResource"

-----------------------------------------------------------------------------
(* The file system and the format loaders *)

\* The content of a file, as its loader deserializes it: a mapping, an
\* integer scalar, or text the loader raises on ("bad"); "none" for a folder.
EmptyMap == [k \in {} |-> 0]
MapContent(map) == [kind |-> "map", map |-> map, n |-> 0]
IntContent(n)   == [kind |-> "int", map |-> EmptyMap, n |-> n]
BadContent      == [kind |-> "bad", map |-> EmptyMap, n |-> 0]
NoContent       == [kind |-> "none", map |-> EmptyMap, n |-> 0]

Folder(path)        == [path |-> path, is_file |-> FALSE, data |-> NoContent]
File(path, content) == [path |-> path, is_file |-> TRUE, data |-> content]

\* os.path.join(a, b)
PathJoin(a, b) == a \o Sep \o b

FsHas(fsv, path) == \E k \in 1..Len(fsv) : fsv[k].path = path
FsEntry(fsv, path) == fsv[CHOOSE k \in 1..Len(fsv) : fsv[k].path = path]

\* os.path.isfile(path)
IsFileOnDisk(fsv, path) == FsHas(fsv, path) /\ FsEntry(fsv, path).is_file
\* os.path.isdir(path)
IsDirOnDisk(fsv, path) == FsHas(fsv, path) /\ ~FsEntry(fsv, path).is_file

Reverse(seq) == [k \in 1..Len(seq) |-> seq[Len(seq) + 1 - k]]

\* os.listdir(path) of a directory: the names directly under it, in the
\* order the file system gives them
ListDir(fsv, rev, path) ==
    LET prefix == path \o Sep
        Under(e) == /\ Len(e.path) > Len(prefix)
                    /\ IsPrefixAt(prefix, e.path, 1)
                    /\ \A k \in (Len(prefix) + 1)..Len(e.path) : e.path[k] # "/"
        found == SelectSeq(fsv, Under)
        names == [k \in 1..Len(found) |->
                     SubSeq(found[k].path, Len(prefix) + 1, Len(found[k].path))]
    IN IF rev THEN Reverse(names) ELSE names

RECURSIVE LastDot(_, _)
\* the position of the last "." of the last component of the path, 0 if none
LastDot(path, k) ==
    IF k = 0 \/ path[k] = "/" THEN 0
    ELSE IF path[k] = "." THEN k
    ELSE LastDot(path, k - 1)

\* os.path.splitext(filepath)[1][1:]
Scheme(path) ==
    LET d == LastDot(path, Len(path)) IN
    IF d = 0 \/ d = 1 \/ path[d - 1] = "/" THEN <<>>
    ELSE SubSeq(path, d + 1, Len(path))

\* load_yaml(stream): `yaml.load(text) or {}`
LoadYaml(content) ==
    IF content.kind = "int" /\ content.n = 0 THEN MapContent(EmptyMap)
    ELSE content

Value(err, path, val) == [err |-> err, errpath |-> path, val |-> val]

\* get_file_loader(filepath): the entry of metadata_loaders for the extension
GetFileLoader(path) ==
    IF Scheme(path) \notin MetadataLoaders
    THEN [err |-> "ResourceError", loader |-> None]
    ELSE [err |-> None,
          loader |-> IF Scheme(path) = S_py THEN "load_python" ELSE "load_yaml"]

\* loader(f) on the content of the file
Deserialize(loader, path, content) ==
    IF content.kind = "bad"
    THEN Value("PackageMetadataError", path, NoContent)
    ELSE Value(None, <<>>,
               IF loader = "load_python" THEN content ELSE LoadYaml(content))

\* load_file with the file opened and read before the loader is looked up
LoadFileReadFirst(fsv, path) ==
    IF ~IsFileOnDisk(fsv, path)
    THEN Value("IOError", <<>>, NoContent)
    ELSE LET d == Deserialize("load_yaml", path, FsEntry(fsv, path).data) IN
         IF d.err # None THEN d
         ELSE IF GetFileLoader(path).err # None
         THEN Value(GetFileLoader(path).err, <<>>, NoContent)
         ELSE Deserialize(GetFileLoader(path).loader, path, FsEntry(fsv, path).data)
\* load_file(filepath, loader=None)
LoadFile(fsv, path) ==
    IF GetFileLoader(path).err # None
    THEN Value(GetFileLoader(path).err, <<>>, NoContent)
    ELSE IF ~IsFileOnDisk(fsv, path)
    THEN Value("IOError", <<>>, NoContent)
    ELSE Deserialize(GetFileLoader(path).loader, path, FsEntry(fsv, path).data)

-----------------------------------------------------------------------------
(* Versions (rez.vendor.version) *)

\* Version(s); Version() is Version(<<>>)
Version(s) == [ver |-> s]
\* str(version)
VersionStr(v) == v.ver

\* the order of the characters of a version string
CharRank(ch) ==
    CASE ch = "." -> 0 [] ch = "-" -> 0
      [] ch = "0" -> 1 [] ch = "1" -> 2 [] ch = "2" -> 3 [] ch = "3" -> 4
      [] ch = "4" -> 5 [] ch = "5" -> 6 [] ch = "6" -> 7 [] ch = "7" -> 8
      [] ch = "8" -> 9 [] ch = "9" -> 10
      [] OTHER -> 11

RECURSIVE SeqLess(_, _)
SeqLess(a, b) ==
    IF b = <<>> THEN FALSE
    ELSE IF a = <<>> THEN TRUE
    ELSE IF CharRank(a[1]) # CharRank(b[1]) THEN CharRank(a[1]) < CharRank(b[1])
    ELSE SeqLess(Tail(a), Tail(b))

\* v1 < v2 for versions of single-digit tokens
VersionLess(v1, v2) == SeqLess(v1.ver, v2.ver)

\* VersionRange("lo+<hi"): the versions from lo, inclusive, up to hi, exclusive
VersionRange(raw) == [lower |-> Version(raw.lo), upper |-> Version(raw.hi)]

\* version in ver_range
InRange(v, range) == ~VersionLess(v, range.lower) /\ VersionLess(v, range.upper)

\* range1 < range2: by lower bound, then by upper bound
RangeLess(r1, r2) ==
    \/ VersionLess(r1.lower, r2.lower)
    \/ (r1.lower = r2.lower /\ VersionLess(r1.upper, r2.upper))

RECURSIVE SortRanges(_)
\* sorted(ranges)
SortRanges(S) ==
    IF S = {} THEN <<>>
    ELSE LET least == CHOOSE r \in S : \A q \in S \ {r} : RangeLess(r, q)
         IN <<least>> \o SortRanges(S \ {least})

-----------------------------------------------------------------------------
(* Schemas *)

Has(map, k) == k \in DOMAIN map

\* dict.update(other) / dict[k] = v
Update(map, other) ==
    [k \in DOMAIN map \cup DOMAIN other |-> IF k \in DOMAIN other THEN other[k] ELSE map[k]]
SetKey(map, k, v) == [j \in DOMAIN map \cup {k} |-> IF j = k THEN v ELSE map[j]]
\* a copy of the dict without key k (dict.pop)
DropKey(map, k) == [j \in DOMAIN map \ {k} |-> map[j]]

RECURSIVE Strip(_)
RECURSIVE StripLeft(_)
StripLeft(s) == IF s # <<>> /\ s[1] = " " THEN StripLeft(Tail(s)) ELSE s
\* string.strip
Strip(s) ==
    LET t == StripLeft(s) IN
    IF t # <<>> /\ t[Len(t)] = " " THEN Strip(SubSeq(t, 1, Len(t) - 1)) ELSE t

ReleaseDataKeys == {"timestamp", "revision", "changelog", "release_message",
                    "previous_version", "previous_revision"}

\* the optional keys of the package schemas whose values are checked, not cast
PlainOptionalKeys == {"uuid", "authors", "help", "tools", "requires",
                      "build_requires", "private_build_requires", "variants",
                      "commands", "custom"}

\* the keys of an entry of version_overrides
OverrideKeys == {"help", "tools", "requires", "build_requires",
                 "private_build_requires", "variants", "commands", "custom"}

Valid(val) == [ok |-> TRUE, val |-> val]
Invalid == [ok |-> FALSE, val |-> NoContent]

\* Schema({...}).validate(data) for a schema of required and optional keys:
\* the data is a dict, holds every required key and no key outside the schema
DictShapeOk(content, required, optional) ==
    /\ content.kind = "map"
    /\ required \subseteq DOMAIN content.map
    /\ DOMAIN content.map \subseteq required \cup optional

\* ReleaseTimestampResource.schema: Use(int)
ValidateReleaseTimestamp(content) ==
    IF content.kind = "int" THEN Valid(content) ELSE Invalid

\* ReleaseDataResource.schema
ValidateReleaseData(content) ==
    IF DictShapeOk(content, ReleaseDataKeys, {}) THEN Valid(content) ELSE Invalid

\* ReleaseInfoResource.schema
ValidateReleaseInfo(content) ==
    IF DictShapeOk(content, {"ACTUAL_BUILD_TIME", "BUILD_TIME", "USER"}, {"SVN"})
    THEN Valid(content) ELSE Invalid

\* the values the keys of BasePackageResource.schema accept, and the casts
BaseValuesOk(map, variables) ==
    /\ map["config_version"] = 0
    /\ map["name"] = variables["name"]

BaseCast(map) ==
    [k \in DOMAIN map |-> IF k = "description" THEN Strip(map[k]) ELSE map[k]]

\* BasePackageResource.schema, for an instance with the given variables
ValidateBasePackage(content, variables) ==
    IF /\ DictShapeOk(content, {"config_version", "name"},
                      PlainOptionalKeys \cup {"description", "config"})
       /\ BaseValuesOk(content.map, variables)
    THEN Valid(MapContent(BaseCast(content.map)))
    ELSE Invalid

\* VersionedPackageResource.schema, with `extra` more keys required
ValidateVersionedPackage(content, variables, extra) ==
    IF /\ DictShapeOk(content, {"config_version", "name", "version"} \cup extra,
                      (PlainOptionalKeys \cup {"description", "config"}) \ extra)
       /\ BaseValuesOk(content.map, variables)
       /\ content.map["version"] = variables["version"]
    THEN Valid(MapContent(SetKey(BaseCast(content.map), "version",
                                 Version(content.map["version"]))))
    ELSE Invalid

\* CombinedPackageFamilyResource.schema
ValidateCombinedFamily(content, variables) ==
    IF /\ DictShapeOk(content, {"config_version", "name"},
                      PlainOptionalKeys \cup {"description", "config",
                                              "versions", "version_overrides"})
       /\ BaseValuesOk(content.map, variables)
       /\ Has(content.map, "version_overrides") =>
             \A raw \in DOMAIN content.map["version_overrides"] :
                DOMAIN content.map["version_overrides"][raw] \subseteq OverrideKeys
    THEN LET map == BaseCast(content.map)
             vs == IF Has(map, "versions")
                   THEN SetKey(map, "versions",
                               [k \in 1..Len(map["versions"]) |->
                                   Version(map["versions"][k])])
                   ELSE map
             ov == IF Has(map, "version_overrides")
                   THEN SetKey(vs, "version_overrides",
                               [range \in {VersionRange(raw) :
                                              raw \in DOMAIN map["version_overrides"]} |->
                                   map["version_overrides"][
                                       CHOOSE raw \in DOMAIN map["version_overrides"] :
                                           VersionRange(raw) = range]])
                   ELSE vs
         IN Valid(MapContent(ov))
    ELSE Invalid

\* the keys BuiltPackageResource.schema turns from optional into required
BuiltSwapKeys == {"uuid", "description", "authors"}

\* self.schema.validate(data) of an instance; `swapped` are the keys the
\* schema property of BuiltPackageResource has made required
SchemaValidate(inst, content, swapped) ==
    CASE inst.cls = "ReleaseTimestampResource" -> ValidateReleaseTimestamp(content)
      [] inst.cls = "ReleaseDataResource"      -> ValidateReleaseData(content)
      [] inst.cls = "ReleaseInfoResource"      -> ValidateReleaseInfo(content)
      [] inst.cls = "VersionlessPackageResource" ->
             ValidateBasePackage(content, inst.variables)
      [] inst.cls = "VersionedPackageResource" ->
             ValidateVersionedPackage(content, inst.variables, {})
      [] inst.cls = "BuiltPackageResource" ->
             ValidateVersionedPackage(content, inst.variables, swapped)
      [] inst.cls \in {"CombinedPackageFamilyResource", "CombinedPackageResource"} ->
             ValidateCombinedFamily(content, inst.variables)

\* FileResource.load that hands back the data of the file without validating
FileResourceLoadUnvalidated(fsv, inst, swapped) ==
    IF ~IsFileOnDisk(fsv, inst.path) THEN Value(None, <<>>, NoContent)
    ELSE LoadFile(fsv, inst.path)

\* FileResource.load: None when there is no file at the path
FileResourceLoad(fsv, inst, swapped) ==
    IF ~IsFileOnDisk(fsv, inst.path) THEN Value(None, <<>>, NoContent)
    ELSE LET data == LoadFile(fsv, inst.path) IN
         IF data.err # None THEN data
         ELSE LET v == SchemaValidate(inst, data.val, swapped) IN
              IF v.ok THEN Value(None, <<>>, v.val)
              ELSE Value("PackageMetadataError", inst.path, NoContent)

-----------------------------------------------------------------------------
(* Combined packages *)

RECURSIVE FirstRangeWith(_, _)
\* the first range of the list that contains the version, as a list of at
\* most one range
FirstRangeWith(version, ranges) ==
    IF ranges = <<>> THEN <<>>
    ELSE IF InRange(version, ranges[1]) THEN <<ranges[1]>>
    ELSE FirstRangeWith(version, Tail(ranges))

RECURSIVE AllRangesWith(_, _)
\* every range of the list that contains the version
AllRangesWith(version, ranges) ==
    IF ranges = <<>> THEN <<>>
    ELSE (IF InRange(version, ranges[1]) THEN <<ranges[1]>> ELSE <<>>)
         \o AllRangesWith(version, Tail(ranges))

RECURSIVE ApplyOverrides(_, _, _)
ApplyOverrides(data, overrides, ranges) ==
    IF ranges = <<>> THEN data
    ELSE ApplyOverrides(Update(data, overrides[ranges[1]]), overrides, Tail(ranges))

\* the body of the loop of CombinedPackageFamilyResource.load applying every
\* override that contains the version
VersionDataAllOverrides(data, overrides, version) ==
    SetKey(ApplyOverrides(data, overrides,
                          AllRangesWith(version, SortRanges(DOMAIN overrides))),
           "version", version)

\* the body of the loop of CombinedPackageFamilyResource.load: the package
\* data of one version
VersionData(data, overrides, version) ==
    SetKey(ApplyOverrides(data, overrides,
                          FirstRangeWith(version, SortRanges(DOMAIN overrides))),
           "version", version)

\* CombinedPackageFamilyResource.load
CombinedFamilyLoad(fsv, inst) ==
    LET Expand(r) ==
          IF r.err # None THEN r
          ELSE IF r.val.kind = "none" THEN Value("AttributeError", <<>>, NoContent)
          ELSE LET map == r.val.map
                   versions == IF Has(map, "versions") THEN map["versions"]
                               ELSE <<Version(<<>>)>>
                   overrides == IF Has(map, "version_overrides")
                                THEN map["version_overrides"] ELSE EmptyMap
                   data == DropKey(DropKey(map, "versions"), "version_overrides")
               IN IF versions # <<>>
                  THEN Value(None, <<>>,
                             MapContent(SetKey(data, "versions",
                                 [k \in 1..Len(versions) |->
                                     VersionData(data, overrides, versions[k])])))
                  ELSE Value(None, <<>>, MapContent(data))
    IN Expand(FileResourceLoad(fsv, inst, {}))

-----------------------------------------------------------------------------
(* The discovery walk *)

\* _is_subset testing the keys only
IsSubsetKeysOnly(d1, d2) == DOMAIN d1 \subseteq DOMAIN d2

\* _is_subset(d1, d2)
IsSubset(d1, d2) == \A k \in DOMAIN d1 : k \in DOMAIN d2 /\ d2[k] = d1[k]

\* the `variables` argument: None or a dict
NoVariables == [given |-> FALSE, vars |-> EmptyVars]
Variables(d) == [given |-> TRUE, vars |-> d]

\* isinstance(child, resource_classes)
IsInstanceOf(c, classes) == SeqRange(Mro(c)) \cap classes # {}

\* the test of iter_resources on a child of the walk
Selected(child, q) ==
    /\ IsInstanceOf(child.cls, q.classes)
    /\ (~q.variables.given \/ IsSubset(q.variables.vars, child.variables))

\* The walk so far: the instances yielded by iter_resources, the exception
\* that ended it, the compiled patterns, and whether the consumer has stopped.
WalkStart(cache) == [items |-> <<>>, err |-> None, errpath |-> <<>>,
                     compiled |-> cache, done |-> FALSE]

Stopped(st) == st.err # None \/ st.done

WalkRaise(st, err, path) == [st EXCEPT !.err = err, !.errpath = path]

\* A generator of the walk that is suspended in a loop: the loop of
\* iter_resources over the roots ("roots"), of _iter_resources over the child
\* classes of `parent` ("classes"), of iter_instances of class `cls` over the
\* directory entries of `parent` ("entries") or over the version records of
\* `parent` ("versions"); `todo` is what is left to loop over.
Frame(kind, c, parent, todo) ==
    [kind |-> kind, cls |-> c, parent |-> parent, todo |-> todo]

NoParent == Instance(None, <<>>, EmptyVars)

\* what one step of a loop did: the walk after it, and the generators it
\* entered
Stepped(st, push) == [st |-> st, push |-> push]

\* a child of the walk: iter_resources yields it if selected, and
\* _iter_resources goes on under it
WalkChild(chl, child, q, st) ==
    Stepped(IF Selected(child, q)
            THEN [st EXCEPT !.items = Append(@, child), !.done = q.first]
            ELSE st,
            <<Frame("classes", None, child, chl[child.cls])>>)

\* the body of the loop of FileSystemResource.iter_instances(cls, parent)
\* for one directory entry
WalkEntry(fsv, chl, c, parent, name, q, st) ==
    LET fullpath == PathJoin(parent.path, name) IN
    IF IsFileOnDisk(fsv, fullpath) # IsFile(c) \/ ~HasPathPattern(c)
    THEN Stepped(st, <<>>)
    ELSE LET Parsed(r) ==
               LET st1 == [st EXCEPT !.compiled = r.compiled] IN
               IF r.err # None THEN Stepped(WalkRaise(st1, r.err, <<>>), <<>>)
               ELSE IF ~r.match.m THEN Stepped(st1, <<>>)
               ELSE WalkChild(chl, Instance(c, fullpath,
                                            Update(r.match.vars, parent.variables)),
                              q, st1)
         IN Parsed(ParseFilepart(c, name, st.compiled, q.roots))

\* the body of the loop of CombinedPackageResource.iter_instances(cls, parent)
\* for one entry of data['versions']
WalkVersion(chl, c, parent, ver_data, q, st) ==
    WalkChild(chl, Instance(c, parent.path,
                            SetKey(parent.variables, "version",
                                   VersionStr(ver_data["version"]))),
              q, st)

\* child_class.iter_instances(parent) as _iter_resources enters it
WalkClass(fsv, rev, c, parent, st) ==
    IF c = "CombinedPackageResource"
    THEN LET Versions(data) ==
               IF data.err # None
               THEN Stepped(WalkRaise(st, data.err, data.errpath), <<>>)
               ELSE IF ~Has(data.val.map, "versions")
               THEN Stepped(WalkRaise(st, "KeyError", <<>>), <<>>)
               ELSE Stepped(st, <<Frame("versions", c, parent,
                                        data.val.map["versions"])>>)
         IN Versions(CombinedFamilyLoad(fsv, parent))
    ELSE IF ~IsDirOnDisk(fsv, parent.path)
    THEN Stepped(WalkRaise(st, "OSError", <<>>), <<>>)
    ELSE Stepped(st, <<Frame("entries", c, parent, ListDir(fsv, rev, parent.path))>>)

\* one step of the innermost suspended loop
WalkStep(fsv, rev, chl, q, st, top) ==
    LET x == top.todo[1] IN
    CASE top.kind = "roots" ->
           Stepped(st, <<Frame("classes", None,
                               Instance("PackagesRoot", x,
                                        [k \in {"search_path"} |-> x]),
                               chl["PackagesRoot"])>>)
      [] top.kind = "classes"  -> WalkClass(fsv, rev, x, top.parent, st)
      [] top.kind = "entries"  -> WalkEntry(fsv, chl, top.cls, top.parent, x, q, st)
      [] top.kind = "versions" -> WalkVersion(chl, top.cls, top.parent, x, q, st)

RECURSIVE Walk(_, _, _, _, _, _)
\* the generators of iter_resources and _iter_resources, run until they are
\* exhausted, an exception leaves them, or the consumer stops
Walk(fsv, rev, chl, q, st, stack) ==
    IF stack = <<>> \/ Stopped(st) THEN st
    ELSE IF stack[1].todo = <<>> THEN Walk(fsv, rev, chl, q, st, Tail(stack))
    ELSE LET Resume(r) ==
               Walk(fsv, rev, chl, q, r.st,
                    r.push \o <<[stack[1] EXCEPT !.todo = Tail(@)]>> \o Tail(stack))
         IN Resume(WalkStep(fsv, rev, chl, q, st, stack[1]))

\* no class has children: the walk stays within one iter_instances
NoChildren == [c \in Classes |-> <<>>]

\* list(c.iter_instances(parent))
IterInstances(fsv, rev, c, parent, cache, roots) ==
    Walk(fsv, rev, NoChildren,
         [classes |-> Classes, variables |-> NoVariables, first |-> FALSE,
          roots |-> roots],
         WalkStart(cache), <<Frame("classes", None, parent, <<c>>)>>)

\* The search_path argument: None or one string.
NoSearchPath == [kind |-> "none", paths |-> <<>>]
SearchPathStr(p) == [kind |-> "str", paths |-> <<p>>]

\* iter_resources(config_version, resource_keys, search_path, variables),
\* consumed to its end, or up to its first instance when `first`
IterResources(fsv, rev, cfgs, chl, v, keys, search_path, variables, cache, roots, first) ==
    LET lr == ListResourceClasses(cfgs, v, keys)
        absent == v \notin DOMAIN cfgs \/ cfgs[v] = <<>>
        paths == IF search_path.kind = "none" THEN roots ELSE search_path.paths
    IN IF lr.err # None \/ (keys.items = <<>> /\ absent)
       THEN WalkRaise(WalkStart(cache), "TypeError", <<>>)
       ELSE Walk(fsv, rev, chl,
                 [classes |-> SeqRange(lr.classes), variables |-> variables,
                  first |-> first, roots |-> roots],
                 WalkStart(cache), <<Frame("roots", None, NoParent, paths)>>)

\* get_resource(config_version, resource_keys=keys, search_path=search_path,
\* variables=variables), no filepath given
GetResourceByCriteria(fsv, rev, cfgs, chl, v, keys, search_path, variables, cache, roots) ==
    IF keys.kind = "none" /\ ~variables.given
    THEN [err |-> "ValueError", errpath |-> <<>>, inst |-> NoInstance, compiled |-> cache]
    ELSE LET Next(w) ==
               IF w.items # <<>>
               THEN [err |-> None, errpath |-> <<>>, inst |-> w.items[1],
                     compiled |-> w.compiled]
               ELSE IF w.err # None
               THEN [err |-> w.err, errpath |-> w.errpath, inst |-> NoInstance,
                     compiled |-> w.compiled]
               ELSE [err |-> IF keys.kind = "none" THEN "TypeError"
                             ELSE "ResourceError",
                     errpath |-> <<>>, inst |-> NoInstance, compiled |-> w.compiled]
         IN Next(IterResources(fsv, rev, cfgs, chl, v, keys, search_path,
                               variables, cache, roots, TRUE))

-----------------------------------------------------------------------------
(* Loading *)

\* the result of a load: the exception raised (None if it returned), the path
\* a PackageMetadataError carries, the value returned, the compiled patterns
Loaded(err, errpath, val, cache) ==
    [err |-> err, errpath |-> errpath, val |-> val, compiled |-> cache]

\* load_resource(0, resource_keys=keys, search_path=search_path,
\* variables=variables) as load_timestamp calls it: the resource found is a
\* release file, loaded by FileResource.load
LoadReleaseResource(fsv, rev, cfgs, chl, keys, search_path, variables, cache, roots) ==
    LET LoadFound(g) ==
          IF g.err # None THEN Loaded(g.err, g.errpath, NoContent, g.compiled)
          ELSE LET Done(r) == Loaded(r.err, r.errpath, r.val, g.compiled)
               IN Done(FileResourceLoad(fsv, g.inst, {}))
    IN LoadFound(GetResourceByCriteria(fsv, rev, cfgs, chl, 0, keys,
                                       SearchPathStr(search_path),
                                       Variables(variables), cache, roots))

\* BasePackageResource.load_timestamp
LoadTimestamp(fsv, rev, cfgs, chl, inst, cache, roots) ==
    IF ~Has(inst.variables, "search_path")
    THEN Loaded("KeyError", <<>>, NoContent, cache)
    ELSE LET FromLegacy(r2) ==
               IF r2.err = None THEN r2
               ELSE IF r2.err = "ResourceError"
               THEN Loaded(None, <<>>, IntContent(0), r2.compiled)
               ELSE r2
             FromRelease(r1) ==
               IF r1.err = None
               THEN IF r1.val.kind = "none"
                    THEN Loaded("AttributeError", <<>>, NoContent, r1.compiled)
                    ELSE Loaded(None, <<>>,
                                IntContent(IF Has(r1.val.map, "timestamp")
                                           THEN r1.val.map["timestamp"] ELSE 0),
                                r1.compiled)
               ELSE IF r1.err # "ResourceError" THEN r1
               ELSE FromLegacy(LoadReleaseResource(fsv, rev, cfgs, chl,
                                               KeyList(<<K_release_timestamp>>),
                                               inst.variables["search_path"],
                                               inst.variables, r1.compiled, roots))
         IN FromRelease(LoadReleaseResource(fsv, rev, cfgs, chl,
                                        KeyList(<<K_release_data>>),
                                        inst.variables["search_path"],
                                        inst.variables, cache, roots))

\* `data['timestamp'] = self.load_timestamp()` and the statements after it,
\* for the data FileResource.load gave; the right-hand side runs first
GraftTimestamp(data, ts, versionless) ==
    IF ts.err # None THEN ts
    ELSE IF data.val.kind # "map" THEN Loaded("TypeError", <<>>, NoContent, ts.compiled)
    ELSE LET stamped == SetKey(data.val.map, "timestamp", ts.val.n) IN
         Loaded(None, <<>>,
                MapContent(IF versionless
                           THEN SetKey(stamped, "version", Version(<<>>))
                           ELSE stamped),
                ts.compiled)

\* VersionlessPackageResource.load without its last assignment
VersionlessLoadKeepsVersion(data, ts) == GraftTimestamp(data, ts, FALSE)

\* VersionlessPackageResource.load, after FileResource.load and load_timestamp
VersionlessLoad(data, ts) == GraftTimestamp(data, ts, TRUE)

\* VersionedPackageResource.load, after FileResource.load and load_timestamp
VersionedLoad(data, ts) == GraftTimestamp(data, ts, FALSE)

\* instance.load() of an instance of any class; `swapped` as in SchemaValidate
Load(fsv, rev, cfgs, chl, inst, swapped, cache, roots) ==
    IF inst.cls \in FolderClasses
    THEN Loaded("TypeError", <<>>, NoContent, cache)
    ELSE IF inst.cls \in {"CombinedPackageFamilyResource", "CombinedPackageResource"}
    THEN LET FromFamily(r) == Loaded(r.err, r.errpath, r.val, cache)
         IN FromFamily(CombinedFamilyLoad(fsv, inst))
    ELSE LET Stamp(data, ts) ==
               IF inst.cls = "VersionlessPackageResource"
               THEN VersionlessLoad(data, ts)
               ELSE VersionedLoad(data, ts)
             Graft(data) ==
               IF inst.cls \in {"ReleaseTimestampResource", "ReleaseInfoResource",
                                "ReleaseDataResource"} \/ data.err # None
               THEN Loaded(data.err, data.errpath, data.val, cache)
               ELSE Stamp(data, LoadTimestamp(fsv, rev, cfgs, chl, inst, cache, roots))
         IN Graft(FileResourceLoad(fsv, inst, swapped))

\* load_resource(config_version, filepath=path, resource_keys=keys): the
\* instance get_resource found and the outcome of its load
LoadResourceByPath(fsv, rev, cfgs, chl, v, path, keys, cache, roots) ==
    LET LoadFound(g) ==
          [inst |-> g.inst,
           result |-> IF g.err # None THEN Loaded(g.err, <<>>, NoContent, g.compiled)
                      ELSE Load(fsv, rev, cfgs, chl, g.inst, {}, g.compiled, roots)]
    IN LoadFound(GetResourceByPath(cfgs, v, path, keys, cache, roots))

\* load_resource(config_version, resource_keys=keys, search_path=search_path,
\* variables=variables)
LoadResourceByCriteria(fsv, rev, cfgs, chl, v, keys, search_path, variables, cache, roots) ==
    LET LoadFound(g) ==
          [inst |-> g.inst,
           result |-> IF g.err # None
                      THEN Loaded(g.err, g.errpath, NoContent, g.compiled)
                      ELSE Load(fsv, rev, cfgs, chl, g.inst, {}, g.compiled, roots)]
    IN LoadFound(GetResourceByCriteria(fsv, rev, cfgs, chl, v, keys, search_path,
                                       variables, cache, roots))

-----------------------------------------------------------------------------
(* Directory trees and file contents *)

S_bar == <<"b","a","r">>
S_baz == <<"b","a","z">>
S_2_0 == <<"2",".","0">>

\* os.path.join of the parts
Path(parts) == JoinWith(Sep, parts)

P_foo          == Path(<<R_r, S_foo>>)
P_foo_1_0      == Path(<<R_r, S_foo, S_1_0>>)
P_versioned    == Path(<<R_r, S_foo, S_1_0, S_package \o Dot \o S_yaml>>)
P_release      == Path(<<R_r, S_foo, S_1_0, S_release_yaml>>)
P_metadata     == Path(<<R_r, S_foo, S_1_0, S_metadata>>)
P_release_time == Path(<<R_r, S_foo, S_1_0, S_metadata, S_release_time>>)
P_versionless  == Path(<<R_r, S_foo, S_package \o Dot \o S_yaml>>)
P_bar          == Path(<<R_r, S_bar>>)
P_bar_1_0      == Path(<<R_r, S_bar, S_1_0>>)
P_bar_package  == Path(<<R_r, S_bar, S_1_0, S_package \o Dot \o S_yaml>>)
P_baz          == R_r \o Sep \o S_baz \o Dot \o S_yaml

\* the content of a package file
Pkg(name, version) ==
    MapContent([k \in {"config_version", "name", "version"} |->
                   CASE k = "config_version" -> 0
                     [] k = "name" -> name
                     [] k = "version" -> version])

PkgVersionless(name) ==
    MapContent([k \in {"config_version", "name"} |->
                   IF k = "name" THEN name ELSE 0])

PkgNoName(version) ==
    MapContent([k \in {"config_version", "version"} |->
                   IF k = "version" THEN version ELSE 0])

\* the content of a release.yaml
Release(ts) ==
    MapContent([k \in ReleaseDataKeys |-> IF k = "timestamp" THEN ts ELSE <<"x">>])

ReleaseNoRevision(ts) ==
    MapContent([k \in ReleaseDataKeys \ {"revision"} |->
                   IF k = "timestamp" THEN ts ELSE <<"x">>])

\* the content of a combined family file
Family(name, versions) ==
    MapContent([k \in {"config_version", "name", "versions"} |->
                   CASE k = "config_version" -> 0
                     [] k = "name" -> name
                     [] k = "versions" -> versions])

OptionalEntries(present, entries) == IF present THEN entries ELSE <<>>

\* the trees the walk is run on
WalkTree(rel, bar, versionless, combined) ==
    <<Folder(R_r), Folder(P_foo)>>
    \o OptionalEntries(versionless, <<File(P_versionless, PkgVersionless(S_foo))>>)
    \o <<Folder(P_foo_1_0), File(P_versioned, Pkg(S_foo, S_1_0))>>
    \o OptionalEntries(rel, <<File(P_release, Release(5))>>)
    \o OptionalEntries(bar, <<Folder(P_bar), Folder(P_bar_1_0),
                              File(P_bar_package, Pkg(S_bar, S_1_0))>>)
    \o (CASE combined = "none" -> <<>>
          [] combined = "ok"   -> <<File(P_baz, Family(S_baz, <<S_1_0, S_2_0>>))>>
          [] combined = "bad"  -> <<File(P_baz, PkgNoName(S_1_0))>>)

WalkTrees ==
    {WalkTree(rel, bar, versionless, combined) :
        rel \in BOOLEAN, bar \in BOOLEAN, versionless \in BOOLEAN,
        combined \in {"none", "ok", "bad"}}

\* the resource_keys arguments of the walks
K_package_any == <<"p","a","c","k","a","g","e",".","*">>
WalkKeys == {NoKeys, KeyList(<<K_package_any>>), KeyList(<<K_folder_version>>)}

Binding(name, version) ==
    [k \in (IF name = <<>> THEN {} ELSE {"name"})
           \cup (IF version = <<>> THEN {} ELSE {"version"}) |->
        IF k = "name" THEN name ELSE version]

\* the variables arguments of the walks
WalkVariables ==
    {NoVariables} \cup
    {Variables(Binding(name, version)) :
        name \in {<<>>, S_foo, S_bar}, version \in {<<>>, S_1_0, S_2_0}}

-----------------------------------------------------------------------------
(* Walks *)

InitWalk ==
    /\ InitFixedRegistry
    /\ packages_path = <<R_r>>
    /\ fs \in WalkTrees
    /\ listdir_rev \in BOOLEAN
    /\ compiled = EmptyCompiled
    /\ res = [op |-> "none", n |-> 0]

\* list(iter_resources(0, resource_keys=keys, variables=variables))
CallIterResources(keys, variables) ==
    /\ res.n < MaxCalls
    /\ LET Outcome(w) ==
             /\ compiled' = w.compiled
             /\ res' = [op |-> "iter_resources", n |-> res.n + 1, keys |-> keys,
                        variables |-> variables, items |-> w.items, err |-> w.err]
       IN Outcome(IterResources(fs, listdir_rev, configs, children, 0, keys,
                                NoSearchPath, variables, compiled, packages_path,
                                FALSE))
    /\ UNCHANGED <<configs, children, reg, packages_path, fs, listdir_rev>>

NextWalk ==
    \E keys \in WalkKeys, variables \in WalkVariables :
        CallIterResources(keys, variables)

SpecWalk == InitWalk /\ [][NextWalk]_vars

\* C4: every instance iter_resources yields for requested bindings B binds
\* every key of B to exactly the requested value, at any depth of the tree.
C4_YieldedMatchBindings ==
    (res.op = "iter_resources" /\ res.variables.given) =>
        \A k \in 1..Len(res.items) :
            \A key \in DOMAIN res.variables.vars :
                /\ key \in DOMAIN res.items[k].variables
                /\ res.items[k].variables[key] = res.variables.vars[key]

\* a walk for {name: foo} of a tree that also holds the package bar has
\* yielded the folder of foo and the package file two levels under it
C4_Witness ==
    /\ res.op = "iter_resources"
    /\ res.variables = Variables(Binding(S_foo, <<>>))
    /\ FsHas(fs, P_bar_package)
    /\ \E k \in 1..Len(res.items) : res.items[k].path = P_foo
    /\ \E k \in 1..Len(res.items) : res.items[k].path = P_versioned

-----------------------------------------------------------------------------
(* Loads *)

\* the content of a package file with the metadata a built package needs
PkgBuilt(name, version) ==
    MapContent([k \in {"config_version", "name", "version", "uuid",
                       "description", "authors"} |->
                   CASE k = "config_version" -> 0
                     [] k = "name" -> name
                     [] k = "version" -> version
                     [] k = "uuid" -> <<"u">>
                     [] k = "description" -> <<" ", "d", " ">>
                     [] k = "authors" -> << <<"a">> >>])

\* the trees the loads are run on
LoadTree(pkg, rel, legacy, versionless, combined) ==
    <<Folder(R_r), Folder(P_foo)>>
    \o (CASE versionless = "none"    -> <<>>
          [] versionless = "ok"      -> <<File(P_versionless, PkgVersionless(S_foo))>>
          [] versionless = "version" -> <<File(P_versionless, Pkg(S_foo, S_1_0))>>)
    \o <<Folder(P_foo_1_0)>>
    \o (CASE pkg = "ok"     -> <<File(P_versioned, Pkg(S_foo, S_1_0))>>
          [] pkg = "built"  -> <<File(P_versioned, PkgBuilt(S_foo, S_1_0))>>
          [] pkg = "noname" -> <<File(P_versioned, PkgNoName(S_1_0))>>
          [] pkg = "bad"    -> <<File(P_versioned, BadContent)>>)
    \o (CASE rel = "none"       -> <<>>
          [] rel = "ok"         -> <<File(P_release, Release(5))>>
          [] rel = "norevision" -> <<File(P_release, ReleaseNoRevision(5))>>)
    \o OptionalEntries(legacy, <<Folder(P_metadata),
                                 File(P_release_time, IntContent(7))>>)
    \o (CASE combined = "none"   -> <<>>
          [] combined = "ok"     -> <<File(P_baz, Family(S_baz, <<S_1_0, S_2_0>>))>>
          [] combined = "noname" -> <<File(P_baz, PkgNoName(S_1_0))>>)

LoadTrees ==
    {LoadTree(pkg, rel, legacy, versionless, combined) :
        pkg \in {"ok", "built", "noname", "bad"},
        rel \in {"none", "ok", "norevision"},
        legacy \in BOOLEAN,
        versionless \in {"none", "ok", "version"},
        combined \in {"none", "ok", "noname"}}

\* the filepath arguments of load_resource
LoadPaths == {P_versioned, P_versionless, P_release, P_release_time, P_baz}

\* the resource_keys arguments of load_resource
LoadKeys == {KeyList(<<K_package_versioned>>), KeyList(<<K_package_versionless>>),
             KeyList(<<K_package_combined>>), KeyList(<<K_release_data>>)}

LoadVariables == {NoVariables, Variables(Binding(S_foo, <<>>))}

\* the variables a BuiltPackageResource is made with
BuiltVariables ==
    {[k \in {"name", "version"} |-> IF k = "name" THEN S_foo ELSE S_1_0],
     [k \in {"search_path", "name", "version"} |->
         CASE k = "search_path" -> R_r [] k = "name" -> S_foo [] k = "version" -> S_1_0]}

InitLoad ==
    /\ InitFixedRegistry
    /\ packages_path = <<R_r>>
    /\ fs \in LoadTrees
    /\ listdir_rev = FALSE
    /\ compiled = EmptyCompiled
    /\ res = [op |-> "none", n |-> 0]

LoadResult(how, n, inst, swapped, r) ==
    [op |-> "load", how |-> how, n |-> n, inst |-> inst, swapped |-> swapped,
     err |-> r.err, errpath |-> r.errpath, val |-> r.val]

\* load_resource(0, filepath=path)
CallLoadResourceByPath(path) ==
    /\ res.n < MaxCalls
    /\ LET Outcome(r) ==
             /\ compiled' = r.result.compiled
             /\ res' = LoadResult("filepath", res.n + 1, r.inst, {}, r.result)
       IN Outcome(LoadResourceByPath(fs, listdir_rev, configs, children, 0, path,
                                     NoKeys, compiled, packages_path))
    /\ UNCHANGED <<configs, children, reg, packages_path, fs, listdir_rev>>

\* load_resource(0, resource_keys=keys, variables=variables)
CallLoadResourceByCriteria(keys, variables) ==
    /\ res.n < MaxCalls
    /\ LET Outcome(r) ==
             /\ compiled' = r.result.compiled
             /\ res' = LoadResult("criteria", res.n + 1, r.inst, {}, r.result)
       IN Outcome(LoadResourceByCriteria(fs, listdir_rev, configs, children, 0,
                                         keys, NoSearchPath, variables, compiled,
                                         packages_path))
    /\ UNCHANGED <<configs, children, reg, packages_path, fs, listdir_rev>>

\* BuiltPackageResource(path, variables).load(); the iteration of the schema
\* property over the dict it changes decides which keys end up required
CallLoadBuilt(variables, swapped) ==
    /\ res.n < MaxCalls
    /\ LET inst == Instance("BuiltPackageResource", P_versioned, variables)
           Outcome(r) ==
             /\ compiled' = r.compiled
             /\ res' = LoadResult("direct", res.n + 1, inst, swapped, r)
       IN Outcome(Load(fs, listdir_rev, configs, children, inst, swapped,
                       compiled, packages_path))
    /\ UNCHANGED <<configs, children, reg, packages_path, fs, listdir_rev>>

NextLoad ==
    \/ \E path \in LoadPaths : CallLoadResourceByPath(path)
    \/ \E keys \in LoadKeys, variables \in LoadVariables :
          CallLoadResourceByCriteria(keys, variables)
    \/ \E variables \in BuiltVariables, swapped \in SUBSET BuiltSwapKeys :
          CallLoadBuilt(variables, swapped)

SpecLoad == InitLoad /\ [][NextLoad]_vars

\* the keys the schema of an instance of class c marks Required
RequiredKeys(c, swapped) ==
    CASE c = "ReleaseDataResource" -> ReleaseDataKeys
      [] c = "ReleaseInfoResource" -> {"ACTUAL_BUILD_TIME", "BUILD_TIME", "USER"}
      [] c \in {"VersionlessPackageResource", "CombinedPackageFamilyResource",
                "CombinedPackageResource"} -> {"config_version", "name"}
      [] c = "VersionedPackageResource" -> {"config_version", "name", "version"}
      [] c = "BuiltPackageResource" ->
             {"config_version", "name", "version"} \cup swapped
      [] OTHER -> {}

\* the loaded instance is a file whose deserialized content is a mapping
\* without one of the keys the schema of the instance requires
LacksRequiredKey ==
    /\ res.op = "load"
    /\ res.inst # NoInstance
    /\ IsFileOnDisk(fs, res.inst.path)
    /\ LET content == LoadYaml(FsEntry(fs, res.inst.path).data) IN
          /\ content.kind = "map"
          /\ ~(RequiredKeys(res.inst.cls, res.swapped) \subseteq DOMAIN content.map)

\* C5: the load of a file whose content lacks a key its schema requires
\* raises PackageMetadataError carrying the path of that file, and returns
\* no record.
C5_MissingKeyRaises ==
    LacksRequiredKey =>
        /\ res.err = "PackageMetadataError"
        /\ res.errpath = res.inst.path
        /\ res.val = NoContent

\* the package file found by path has no name, and the load has raised
C5_Witness ==
    /\ LacksRequiredKey
    /\ res.how = "filepath"
    /\ res.inst.cls = "VersionedPackageResource"
    /\ ~Has(FsEntry(fs, res.inst.path).data.map, "name")
    /\ res.err = "PackageMetadataError"

\* C6 (as claimed): a load_resource call that returns gives a value that
\* passed the schema of the instance, never an absent result.
C6_AsClaimed ==
    (res.op = "load" /\ res.how # "direct" /\ res.err = None) =>
        res.val.kind # "none"

\* C8: a record VersionlessPackageResource.load returns has its version
\* field equal to Version(), whatever the file holds.
C8_VersionlessVersion ==
    (res.op = "load" /\ res.inst # NoInstance
       /\ res.inst.cls = "VersionlessPackageResource" /\ res.err = None) =>
        /\ res.val.kind = "map"
        /\ Has(res.val.map, "version")
        /\ res.val.map["version"] = Version(<<>>)

\* a versionless package file has been loaded and a record returned
C8_Witness ==
    /\ res.op = "load"
    /\ res.inst # NoInstance
    /\ res.inst.cls = "VersionlessPackageResource"
    /\ res.err = None
    /\ res.val.map["version"] = Version(<<>>)
    /\ res.val.map["name"] = S_foo

\* the timestamp the release files next to the versioned package stand for
ReleaseTimestamp ==
    IF IsFileOnDisk(fs, P_release)
       /\ ValidateReleaseData(LoadYaml(FsEntry(fs, P_release).data)).ok
    THEN FsEntry(fs, P_release).data.map["timestamp"]
    ELSE IF IsFileOnDisk(fs, P_release_time)
    THEN FsEntry(fs, P_release_time).data.n
    ELSE 0

\* C9 (as claimed): the timestamp of a versioned package found at
\* root/name/version/package.<ext> is the timestamp of release.yaml when it
\* exists and validates, otherwise the integer of .metadata/release_time.txt
\* when it exists, otherwise 0.
C9_AsClaimed ==
    (res.op = "load" /\ res.how # "direct" /\ res.inst # NoInstance
       /\ res.inst.cls = "VersionedPackageResource" /\ res.err = None) =>
        res.val.map["timestamp"] = ReleaseTimestamp

PackageClasses == {"VersionedPackageResource", "VersionlessPackageResource",
                   "BuiltPackageResource", "CombinedPackageResource"}

\* C10 (as claimed): every mapping the load of a package resource type
\* returns holds the keys config_version, name, version and timestamp.
C10_AsClaimed ==
    (res.op = "load" /\ res.inst # NoInstance
       /\ res.inst.cls \in PackageClasses /\ res.err = None) =>
        /\ res.val.kind = "map"
        /\ {"config_version", "name", "version", "timestamp"}
              \subseteq DOMAIN res.val.map

-----------------------------------------------------------------------------
(* Loads of combined families *)

S_1_1 == <<"1",".","1">>
S_3_0 == <<"3",".","0">>

P_family == R_r \o Sep \o S_foo \o Dot \o S_yaml

\* the keys of version_overrides, as the file writes them
Range_1_2 == [lo |-> S_1_0, hi |-> S_2_0]
Range_1_3 == [lo |-> S_1_0, hi |-> S_3_0]
Range_2_3 == [lo |-> S_2_0, hi |-> S_3_0]

\* what each override of the files sets
OverrideOf(raw) ==
    CASE raw = Range_1_2 -> [k \in {"requires"} |-> << <<"x">> >>]
      [] raw = Range_1_3 -> [k \in {"tools"} |-> << <<"t">> >>]
      [] raw = Range_2_3 -> [k \in {"requires"} |-> << <<"y">> >>]

VersionsChoices == {<<S_1_0>>, <<S_1_0, S_1_1, S_2_0>>, <<S_2_0, S_1_0>>,
                    <<S_3_0, S_1_1>>, <<>>}

\* the content of a family file: family-level requires or not, a versions
\* list or not, and overrides for a set of ranges
FamilyData(base, declares, versions, ranges) ==
    LET keys == {"config_version", "name"}
                \cup (IF base THEN {"requires"} ELSE {})
                \cup (IF declares THEN {"versions"} ELSE {})
                \cup (IF ranges # {} THEN {"version_overrides"} ELSE {})
    IN MapContent([k \in keys |->
           CASE k = "config_version" -> 0
             [] k = "name" -> S_foo
             [] k = "requires" -> << <<"b">> >>
             [] k = "versions" -> versions
             [] k = "version_overrides" -> [raw \in ranges |-> OverrideOf(raw)]])

FamilyFiles ==
    {FamilyData(base, TRUE, versions, ranges) :
        base \in BOOLEAN, versions \in VersionsChoices,
        ranges \in SUBSET {Range_1_2, Range_1_3, Range_2_3}}
    \cup {FamilyData(base, FALSE, <<>>, ranges) :
        base \in BOOLEAN, ranges \in SUBSET {Range_1_2, Range_1_3, Range_2_3}}

InitCombined ==
    /\ InitFixedRegistry
    /\ packages_path = <<R_r>>
    /\ \E data \in FamilyFiles : fs = <<Folder(R_r), File(P_family, data)>>
    /\ listdir_rev = FALSE
    /\ compiled = EmptyCompiled
    /\ res = [op |-> "none", n |-> 0]

\* load_resource(0, resource_keys=['package_family.combined'])
CallLoadFamily ==
    /\ res.n < MaxCalls
    /\ LET Outcome(r) ==
             /\ compiled' = r.result.compiled
             /\ res' = LoadResult("criteria", res.n + 1, r.inst, {}, r.result)
       IN Outcome(LoadResourceByCriteria(fs, listdir_rev, configs, children, 0,
                                         KeyList(<<K_package_family_combined>>),
                                         NoSearchPath, NoVariables, compiled,
                                         packages_path))
    /\ UNCHANGED <<configs, children, reg, packages_path, fs, listdir_rev>>

\* the instance of the family file, as the walk of the root makes it
FamilyInstance ==
    Instance("CombinedPackageFamilyResource", P_family,
             [k \in {"search_path", "name", "ext"} |->
                 CASE k = "search_path" -> R_r [] k = "name" -> S_foo
                   [] k = "ext" -> S_yaml])

\* list(CombinedPackageResource.iter_instances(parent))
CallIterVersions(parent) ==
    /\ res.n < MaxCalls
    /\ LET Outcome(w) ==
             /\ compiled' = w.compiled
             /\ res' = [op |-> "iter_instances", n |-> res.n + 1,
                        cls |-> "CombinedPackageResource",
                        parent |-> parent, items |-> w.items, err |-> w.err]
       IN Outcome(IterInstances(fs, listdir_rev, "CombinedPackageResource", parent,
                                compiled, packages_path))
    /\ UNCHANGED <<configs, children, reg, packages_path, fs, listdir_rev>>

NextCombined ==
    \/ CallLoadFamily
    \/ CallIterVersions(FamilyInstance)

SpecCombined == InitCombined /\ [][NextCombined]_vars

\* the family file has been loaded and a mapping returned
FamilyLoaded ==
    /\ res.op = "load"
    /\ res.inst # NoInstance
    /\ res.inst.cls = "CombinedPackageFamilyResource"
    /\ res.err = None

\* the record the claim gives version v of the family file `raw`: the
\* family-level fields, then the fields of the least range containing v, if
\* any, then the version
IsRecordOf(rec, raw, v) ==
    LET overrides == IF Has(raw, "version_overrides")
                     THEN raw["version_overrides"] ELSE EmptyMap
        base == DropKey(DropKey(raw, "versions"), "version_overrides")
        containing == {r \in DOMAIN overrides : InRange(Version(v), VersionRange(r))}
    IN IF containing = {}
       THEN rec = SetKey(base, "version", Version(v))
       ELSE \E r \in containing :
               /\ \A q \in containing \ {r} :
                     RangeLess(VersionRange(r), VersionRange(q))
               /\ rec = SetKey(Update(base, overrides[r]), "version", Version(v))

\* C7: CombinedPackageFamilyResource.load gives one record per declared
\* version, in declaration order; each record is the family-level fields with
\* the fields of the first range (ascending) containing the version applied,
\* or of none, and the version set; upper bounds are exclusive; a file with no
\* versions key gives exactly one record, at the unspecified version.
C7_FamilyExpansion ==
    FamilyLoaded =>
        LET raw == FsEntry(fs, res.inst.path).data.map
            declared == IF Has(raw, "versions") THEN raw["versions"]
                        ELSE << <<>> >>
        IN declared # <<>> =>
              /\ Has(res.val.map, "versions")
              /\ Len(res.val.map["versions"]) = Len(declared)
              /\ \A k \in 1..Len(declared) :
                    IsRecordOf(res.val.map["versions"][k], raw, declared[k])

\* versions [1.0, 1.1, 2.0] with overrides for [1.0,2.0) and [1.0,3.0): the
\* records of 1.0 and 1.1 have the requires of [1.0,2.0) and not the tools of
\* [1.0,3.0); the record of 2.0 has the tools of [1.0,3.0) and no requires
C7_Witness ==
    /\ FamilyLoaded
    /\ LET raw == FsEntry(fs, P_family).data.map
           recs == res.val.map["versions"]
       IN /\ Has(raw, "versions") /\ raw["versions"] = <<S_1_0, S_1_1, S_2_0>>
          /\ ~Has(raw, "requires")
          /\ Has(raw, "version_overrides")
          /\ DOMAIN raw["version_overrides"] = {Range_1_2, Range_1_3}
          /\ Len(recs) = 3
          /\ recs[1]["requires"] = << <<"x">> >> /\ ~Has(recs[1], "tools")
          /\ recs[2]["requires"] = << <<"x">> >> /\ ~Has(recs[2], "tools")
          /\ ~Has(recs[3], "requires") /\ Has(recs[3], "tools")
          /\ recs[3]["version"] = Version(S_2_0)

-----------------------------------------------------------------------------
(* Registration *)

InitReg ==
    /\ InitFixedRegistry
    /\ packages_path = <<R_r>>
    /\ fs = <<>>
    /\ listdir_rev = FALSE
    /\ compiled = EmptyCompiled
    /\ res = [op |-> "none", n |-> 0]

\* a register_resource(v, c) call made after the import of the module
Register(v, c) ==
    /\ reg.n < MaxExtraRegistrations
    /\ LET r == RegisterResource(configs, children, v, c)
       IN /\ configs' = r.configs
          /\ children' = r.children
          /\ reg' = [n |-> reg.n + 1, version |-> v, class |-> c, err |-> r.err]
    /\ UNCHANGED <<packages_path, fs, listdir_rev, compiled, res>>

NextReg == \E v \in ConfigVersions, c \in Classes : Register(v, c)

SpecReg == InitReg /\ [][NextReg]_vars

\* C1: a register_resource call fails with ResourceError exactly when the key
\* of the class is already registered under that config version (whatever is
\* registered under other versions); a failed call changes neither the lists
\* nor the children index, a successful one appends to the list of its own
\* version only
C1_DuplicateKeyRejected ==
    [][reg'.n = reg.n + 1 =>
         LET v == reg'.version
             c == reg'.class
             dup == Key(c) \in RegistryKeys(configs, v)
         IN /\ (reg'.err = "ResourceError") <=> dup
            /\ dup => (configs' = configs /\ children' = children)
            /\ ~dup => /\ reg'.err = None
                       /\ configs'[v] = Append(configs[v], c)
                       /\ \A w \in ConfigVersions \ {v} : configs'[w] = configs[w]
    ]_vars

\* a class registered under version 1 although its key is registered under
\* version 0, then rejected when registered under version 1 again
C1_Witness ==
    /\ reg.n = 2
    /\ reg.err = "ResourceError"
    /\ reg.version = 1
    /\ Key(reg.class) \in RegistryKeys(configs, 0)
    /\ Len(configs[1]) = 1

RegisteredBefore(v, p, i) == \E j \in 1..(i - 1) : configs[v][j] = p

\* C2 as claimed: a class is only ever registered after its parent, so every
\* registered class has no parent or a parent earlier in the same list
C2_AsClaimed ==
    \A v \in ConfigVersions : \A i \in 1..Len(configs[v]) :
        \/ ParentResource(configs[v][i]) = None
        \/ RegisteredBefore(v, ParentResource(configs[v][i]), i)

\* C2, amended: register_resource does not look at the parent. A call is
\* rejected only for a duplicate key; a class is accepted whether or not its
\* parent is registered, and every accepted class that has a parent is in the
\* children list of that parent, which holds only classes naming it as parent
C2_ParentNotChecked ==
    /\ \A v \in ConfigVersions : \A i \in 1..Len(configs[v]) :
          ParentResource(configs[v][i]) # None
             => configs[v][i] \in SeqRange(children[ParentResource(configs[v][i])])
    /\ \A p \in Classes : \A i \in 1..Len(children[p]) :
          ParentResource(children[p][i]) = p
    /\ reg.n > 0 =>
          IF reg.err = None
          THEN configs[reg.version][Len(configs[reg.version])] = reg.class
          ELSE /\ reg.err = "ResourceError"
               /\ \E i \in 1..Len(configs[reg.version]) :
                     Key(configs[reg.version][i]) = Key(reg.class)

\* a class accepted under version 1 while its parent is not registered there
C2_Witness ==
    /\ reg.n > 0
    /\ reg.err = None
    /\ reg.version = 1
    /\ ParentResource(reg.class) # None
    /\ ParentResource(reg.class) \notin SeqRange(configs[1])

-----------------------------------------------------------------------------
(* The compiled patterns across calls and changes of the search path *)

\* number of pattern-matching calls in one behaviour
MaxCacheCalls == 2
\* number of changes of settings.packages_path in one behaviour
MaxRootChanges == 1

CacheRoots   == {<<R_r>>, <<R_s>>}
CacheClasses == {"NameFolder", "CombinedPackageFamilyResource",
                 "CombinedPackageResource", "VersionedPackageResource"}
CachePaths   == {P_foo, R_s \o Sep \o S_foo, P_family, P_versioned}
CacheNames   == {S_foo, S_foo \o Dot \o S_yaml, S_package \o Dot \o S_yaml}

\* templates handed to _parse_pattern, some with placeholders a class has no
\* regular expression for
T_foo == Var("foo", <<"{","f","o","o","}">>)
TemplateClasses == {"NameFolder", "VersionedPackageResource"}
Templates       == {<<T_foo>>, <<T_name, Lit(Dot), T_ext>>, <<T_name>>}
TemplateNames   == {S_foo, T_foo.text, S_foo \o Dot \o S_yaml,
                    S_foo \o Dot \o T_ext.text}

InitCache ==
    /\ InitFixedRegistry
    /\ packages_path = <<R_r>>
    /\ fs = <<>>
    /\ listdir_rev = FALSE
    /\ compiled = EmptyCompiled
    /\ res = [op |-> "none", n |-> 0, changes |-> 0]

\* settings.packages_path = roots
SetPackagesPath(roots) ==
    /\ res.changes < MaxRootChanges
    /\ roots # packages_path
    /\ packages_path' = roots
    /\ res' = [res EXCEPT !.changes = @ + 1]
    /\ UNCHANGED <<configs, children, reg, fs, listdir_rev, compiled>>

\* c.from_path(path), with whatever the classes have compiled so far
CallFromPathCached(c, path) ==
    /\ res.n < MaxCacheCalls
    /\ LET Outcome(r) ==
             /\ compiled' = r.compiled
             /\ res' = [op |-> "from_path", n |-> res.n + 1,
                        changes |-> res.changes, cls |-> c, path |-> path,
                        roots |-> packages_path, before |-> compiled,
                        err |-> r.err, inst |-> r.inst]
       IN Outcome(FromPath(c, path, compiled, packages_path))
    /\ UNCHANGED <<configs, children, reg, packages_path, fs, listdir_rev>>

\* c._parse_filepart(name), with whatever the classes have compiled so far
CallParseFilepart(c, name) ==
    /\ res.n < MaxCacheCalls
    /\ LET Outcome(r) ==
             /\ compiled' = r.compiled
             /\ res' = [op |-> "parse_filepart", n |-> res.n + 1,
                        changes |-> res.changes, cls |-> c, path |-> name,
                        roots |-> packages_path, before |-> compiled,
                        err |-> r.err, match |-> r.match]
       IN Outcome(ParseFilepart(c, name, compiled, packages_path))
    /\ UNCHANGED <<configs, children, reg, packages_path, fs, listdir_rev>>

\* c._parse_pattern(name, pattern, '_compiled_pattern')
CallParsePattern(c, pattern, name) ==
    /\ res.n < MaxCacheCalls
    /\ LET Outcome(r) ==
             /\ compiled' = r.compiled
             /\ res' = [op |-> "parse_pattern", n |-> res.n + 1,
                        changes |-> res.changes, cls |-> c, path |-> name,
                        pattern |-> pattern,
                        roots |-> packages_path, before |-> compiled,
                        err |-> r.err, match |-> r.match]
       IN Outcome(ParsePattern(c, name, pattern, "own", compiled, packages_path))
    /\ UNCHANGED <<configs, children, reg, packages_path, fs, listdir_rev>>

NextCache ==
    \/ \E roots \in CacheRoots : SetPackagesPath(roots)
    \/ \E c \in CacheClasses, path \in CachePaths : CallFromPathCached(c, path)
    \/ \E c \in CacheClasses, name \in CacheNames : CallParseFilepart(c, name)
    \/ \E c \in TemplateClasses, pattern \in Templates, name \in TemplateNames :
          CallParsePattern(c, pattern, name)

SpecCache == InitCache /\ [][NextCache]_vars

\* the path matches the full template of class c compiled under `roots`
MatchesFullTemplate(c, path, roots) ==
    LET rx == ExpandPattern(c, FullPattern(c), roots) IN
    ~CompileFails(rx) /\ MatchFrom(rx, 1, path, 1).m

\* C11 (as claimed): T.from_path(P) succeeds exactly when P matches T's full
\* template under the roots configured at the time of the call, whatever
\* changes of the roots and from_path calls came before (stated for the
\* classes that look up no other class's matcher).
C11_AsClaimed ==
    (res.op = "from_path" /\ Len(Mro(res.cls)) = 1) =>
        ((res.err = None) <=> MatchesFullTemplate(res.cls, res.path, res.roots))

-----------------------------------------------------------------------------
(* Lookups that find nothing *)

\* filepath=None
NoPath == <<>>

\* get_resource(config_version, filepath, resource_keys=keys,
\* search_path=search_path, variables=variables)
GetResource(fsv, rev, cfgs, chl, v, filepath, keys, search_path, variables, cache, roots) ==
    IF filepath # NoPath
    THEN LET WithPath(g) == [err |-> g.err, errpath |-> <<>>, inst |-> g.inst,
                             compiled |-> g.compiled]
         IN WithPath(GetResourceByPath(cfgs, v, filepath, keys, cache, roots))
    ELSE GetResourceByCriteria(fsv, rev, cfgs, chl, v, keys, search_path,
                               variables, cache, roots)

\* load_resource(config_version, filepath, resource_keys=keys,
\* search_path=search_path, variables=variables)
LoadResource(fsv, rev, cfgs, chl, v, filepath, keys, search_path, variables, cache, roots) ==
    LET LoadFound(g) ==
          IF g.err # None
          THEN Loaded(g.err, g.errpath, NoContent, g.compiled)
          ELSE Load(fsv, rev, cfgs, chl, g.inst, {}, g.compiled, roots)
    IN LoadFound(GetResource(fsv, rev, cfgs, chl, v, filepath, keys, search_path,
                             variables, cache, roots))

P_elsewhere == Path(<<R_s, S_foo, S_1_0, S_package \o Dot \o S_yaml>>)
P_unknown   == Path(<<R_r, S_foo, S_1_0, S_package \o Dot \o <<"c","f","g">> >>)

FindTrees ==
    {WalkTree(FALSE, bar, FALSE, combined) :
        bar \in BOOLEAN, combined \in {"none", "ok", "bad"}}
FindPaths == {NoPath, P_versioned, P_bar_package, P_elsewhere, P_unknown}
FindKeys  == {NoKeys, KeyList(<<K_package_versioned>>), KeyList(<<K_release_data>>),
              KeyList(<<K_folder_name>>)}
FindVariables == {NoVariables, Variables(Binding(S_foo, <<>>)),
                  Variables(Binding(S_bar, <<>>))}

InitFind ==
    /\ InitFixedRegistry
    /\ packages_path = <<R_r>>
    /\ fs \in FindTrees
    /\ listdir_rev = FALSE
    /\ compiled = EmptyCompiled
    /\ res = [op |-> "none", n |-> 0]

FindResult(op, filepath, keys, variables, r) ==
    [op |-> op, n |-> res.n + 1, filepath |-> filepath, keys |-> keys,
     variables |-> variables, err |-> r.err]

\* get_resource(0, filepath, resource_keys=keys, variables=variables)
CallGetResource(filepath, keys, variables) ==
    /\ res.n < MaxCalls
    /\ LET Outcome(r) ==
             /\ compiled' = r.compiled
             /\ res' = FindResult("get_resource", filepath, keys, variables, r)
       IN Outcome(GetResource(fs, listdir_rev, configs, children, 0, filepath,
                              keys, NoSearchPath, variables, compiled, packages_path))
    /\ UNCHANGED <<configs, children, reg, packages_path, fs, listdir_rev>>

\* load_resource(0, filepath, resource_keys=keys, variables=variables)
CallLoadResource(filepath, keys, variables) ==
    /\ res.n < MaxCalls
    /\ LET Outcome(r) ==
             /\ compiled' = r.compiled
             /\ res' = FindResult("load_resource", filepath, keys, variables, r)
       IN Outcome(LoadResource(fs, listdir_rev, configs, children, 0, filepath,
                               keys, NoSearchPath, variables, compiled, packages_path))
    /\ UNCHANGED <<configs, children, reg, packages_path, fs, listdir_rev>>

NextFind ==
    \/ \E filepath \in FindPaths, keys \in FindKeys, variables \in FindVariables :
          CallGetResource(filepath, keys, variables)
    \/ \E filepath \in FindPaths, keys \in FindKeys, variables \in FindVariables :
          CallLoadResource(filepath, keys, variables)

SpecFind == InitFind /\ [][NextFind]_vars

\* the classes the resource_keys of the last call select, as a set
SelectedClasses == SeqRange(ListResourceClasses(configs, 0, res.keys).classes)

\* the resolution of the last call finds nothing: no selected class has a
\* template the path matches (path form), or the complete walk over the tree
\* ends without an instance and without an error (criteria form)
YieldsNothing ==
    IF res.filepath # NoPath
    THEN \A c \in SelectedClasses :
            ~MatchesFullTemplate(c, res.filepath, packages_path)
    ELSE /\ res.keys.kind # "none" \/ res.variables.given
         /\ LET Ended(w) == w.err = None /\ w.items = <<>>
            IN Ended(IterResources(fs, listdir_rev, configs, children, 0, res.keys,
                                   NoSearchPath, res.variables, EmptyCompiled,
                                   packages_path, FALSE))

\* C12 (as claimed): a get_resource or load_resource call whose resolution
\* finds nothing fails with ResourceError and with no other kind of failure,
\* in the path form and in the criteria form, with resource_keys and variables
\* given or omitted.
C12_AsClaimed ==
    (res.op \in {"get_resource", "load_resource"} /\ YieldsNothing) =>
        res.err = "ResourceError"

-----------------------------------------------------------------------------
(* load_file by extension *)

S_cfg == <<"c","f","g">>
FileExts == {S_yaml, S_py, S_txt, S_cfg, <<>>}
\* /r/data.<ext>, /r/data for no extension
P_data(ext) ==
    Path(<<R_r, <<"d","a","t","a">> \o (IF ext = <<>> THEN <<>> ELSE Dot \o ext)>>)
FileContents == {MapContent(Pkg(S_foo, S_1_0).map), IntContent(0), IntContent(7),
                 BadContent}
FileTrees ==
    {<<Folder(R_r), File(P_data(ext), content)>> :
        ext \in FileExts, content \in FileContents}

InitFile ==
    /\ InitFixedRegistry
    /\ packages_path = <<R_r>>
    /\ fs \in FileTrees
    /\ listdir_rev = FALSE
    /\ compiled = EmptyCompiled
    /\ res = [op |-> "none", n |-> 0]

\* load_file(path)
CallLoadFile(path) ==
    /\ res.n < MaxCalls
    /\ LET Outcome(r) ==
             res' = [op |-> "load_file", n |-> res.n + 1, path |-> path,
                     err |-> r.err, errpath |-> r.errpath, val |-> r.val]
       IN Outcome(LoadFile(fs, path))
    /\ UNCHANGED <<configs, children, reg, packages_path, fs, listdir_rev, compiled>>

NextFile == \E ext \in FileExts : CallLoadFile(P_data(ext))

SpecFile == InitFile /\ [][NextFile]_vars

\* what the loader named by the table yields for a content: load_python
\* returns the dictionary, load_yaml returns `yaml.load(text) or {}`
LoadedWith(loader, content) ==
    IF loader = "load_yaml" /\ content = IntContent(0) THEN MapContent(EmptyMap)
    ELSE content

\* the loader the fixed table gives an extension
TableLoader(ext) ==
    CASE ext = S_py -> "load_python"
      [] ext = S_yaml -> "load_yaml"
      [] ext = S_txt -> "load_yaml"
      [] OTHER -> None

UnknownPlaceholders(c, pattern) ==
    {pattern[k].var : k \in 1..Len(pattern)}
        \ (VariableRegex(c) \cup {"search_path", ""})

\* the last call compiled its template: no matcher was stored before it
CompiledNow ==
    ~LookupCompiled(res.before, Mro(res.cls), "own").set

\* C14 (as claimed): compiling a template that holds a placeholder the class
\* has no entry for ({foo}, or {ext} on a folder class) fails with a
\* ConfigurationError at compile time, and no matcher is produced that takes
\* the placeholder as literal text.
C14_AsClaimed ==
    (/\ res.op = "parse_pattern"
     /\ CompiledNow
     /\ UnknownPlaceholders(res.cls, res.pattern) # {}) =>
        /\ res.err = "ConfigurationError"
        /\ ~compiled[res.cls]["own"].set

-----------------------------------------------------------------------------
(* Discovery of every entry on disk *)

DiscoverTrees ==
    {LoadTree("ok", rel, legacy, versionless, combined) :
        rel \in {"none", "ok"}, legacy \in BOOLEAN,
        versionless \in {"none", "ok"}, combined \in {"none", "ok"}}
DiscoverKeys == {NoKeys, KeyList(<<K_release_timestamp>>), KeyList(<<K_package_any>>),
                 KeyList(<<K_folder_version>>)}

InitDiscover ==
    /\ InitFixedRegistry
    /\ packages_path = <<R_r>>
    /\ fs \in DiscoverTrees
    /\ listdir_rev \in BOOLEAN
    /\ compiled = EmptyCompiled
    /\ res = [op |-> "none", n |-> 0]

\* resource_keys given as one string
DiscoverKeyStrings == {K_package_any, K_package_versioned, K_folder_name}

NextDiscover ==
    \/ \E keys \in DiscoverKeys : CallIterResources(keys, NoVariables)
    \/ \E key \in DiscoverKeyStrings : CallIterResources(KeyStr(key), NoVariables)

SpecDiscover == InitDiscover /\ [][NextDiscover]_vars

\* the entries of the tree that match the chain of fragments of class c, from
\* a configured root down to c's own fragment, and are of c's kind
EntriesOf(c) ==
    {k \in 1..Len(fs) : /\ fs[k].is_file = IsFile(c)
                        /\ MatchesFullTemplate(c, fs[k].path, packages_path)}

\* the positions of the yielded sequence that hold an instance of c at path
YieldsOf(c, path) ==
    {k \in 1..Len(res.items) : res.items[k].cls = c /\ res.items[k].path = path}

\* C15 (as claimed): a complete iter_resources yields every entry on disk that
\* matches the chain of ancestor fragments of a registered class with a
\* template, as an instance of that class, exactly once.
C15_AsClaimed ==
    (res.op = "iter_resources" /\ res.err = None) =>
        \A c \in SeqRange(ListResourceClasses(configs, 0, res.keys).classes) :
            HasPathPattern(c) =>
                \A k \in EntriesOf(c) : Cardinality(YieldsOf(c, fs[k].path)) = 1

\* what the complete walk of the tree yields for resource_keys=keys
YieldedFor(keys) ==
    LET Seen(w) == [items |-> w.items, err |-> w.err]
    IN Seen(IterResources(fs, listdir_rev, configs, children, 0, keys, NoSearchPath,
                          NoVariables, EmptyCompiled, packages_path, FALSE))

\* C16 (as claimed): iter_resources called with resource_keys a single string K
\* yields what it yields for resource_keys=[K].
C16_AsClaimed ==
    \A key \in DiscoverKeyStrings :
        (res.op = "iter_resources" /\ res.keys = KeyStr(key)) =>
            [items |-> res.items, err |-> res.err] = YieldedFor(KeyList(<<key>>))

-----------------------------------------------------------------------------
(* iter_instances of one class under one parent *)

S_foo_nl == S_foo \o <<"\n">>
InstanceTree(nl, file, version, package, family) ==
    <<Folder(R_r), Folder(P_foo)>>
    \o OptionalEntries(nl, <<Folder(Path(<<R_r, S_foo_nl>>))>>)
    \o OptionalEntries(file, <<File(P_bar, Pkg(S_bar, S_1_0))>>)
    \o OptionalEntries(version, <<Folder(Path(<<R_r, S_1_0>>))>>)
    \o OptionalEntries(package,
                       <<File(Path(<<R_r, S_package \o Dot \o S_yaml>>),
                              Pkg(S_foo, S_1_0))>>)
    \o OptionalEntries(family, <<File(P_baz, Family(S_baz, <<S_1_0, S_2_0>>))>>)
InstanceTrees ==
    {InstanceTree(nl, file, version, package, family) :
        nl \in BOOLEAN, file \in BOOLEAN, version \in BOOLEAN,
        package \in BOOLEAN, family \in BOOLEAN}

\* parents: the root as the walk makes it, and a parent at the same path
\* that already binds name and version
InstanceParents ==
    {Instance("PackagesRoot", R_r, [k \in {"search_path"} |-> R_r]),
     Instance("VersionFolder", R_r,
              [k \in {"search_path", "name", "version"} |->
                  CASE k = "search_path" -> R_r [] k = "name" -> S_bar
                    [] k = "version" -> S_2_0])}
InstanceClasses == {"NameFolder", "VersionFolder", "VersionedPackageResource",
                    "CombinedPackageFamilyResource", "BuiltPackageResource"}

InitInstances ==
    /\ InitFixedRegistry
    /\ packages_path = <<R_r>>
    /\ fs \in InstanceTrees
    /\ listdir_rev \in BOOLEAN
    /\ compiled = EmptyCompiled
    /\ res = [op |-> "none", n |-> 0]

\* list(c.iter_instances(parent)) for a class that lists the parent's directory
CallIterInstances(c, parent) ==
    /\ res.n < MaxCalls
    /\ LET Outcome(w) ==
             /\ compiled' = w.compiled
             /\ res' = [op |-> "iter_instances", n |-> res.n + 1, cls |-> c,
                        parent |-> parent, items |-> w.items, err |-> w.err]
       IN Outcome(IterInstances(fs, listdir_rev, c, parent, compiled, packages_path))
    /\ UNCHANGED <<configs, children, reg, packages_path, fs, listdir_rev>>

NextInstances ==
    \E c \in InstanceClasses, parent \in InstanceParents : CallIterInstances(c, parent)

SpecInstances == InitInstances /\ [][NextInstances]_vars

\* reg.match of the own fragment of class c against an entry name
FragmentMatch(c, name) ==
    MatchFrom(ExpandPattern(c, PathPattern(c), packages_path), 1, name, 1)

\* the whole of `name`, to its last character, is an instance of the fragment
MatchesInFull(c, name) == FragmentMatch(c, name).m /\ name[Len(name)] # "\n"

\* C17 (as claimed): every instance that FileSystemResource.iter_instances
\* yields for class T under a parent is at the parent's path joined with the
\* name of a direct entry of the parent, the entry is of T's kind, the whole
\* name matches T's own fragment, and the bindings are the captured
\* placeholders united with the parent's bindings, the parent's values winning.
C17_AsClaimed ==
    res.op = "iter_instances" =>
        \A k \in 1..Len(res.items) :
            \E j \in 1..Len(ListDir(fs, listdir_rev, res.parent.path)) :
                LET name == ListDir(fs, listdir_rev, res.parent.path)[j]
                    item == res.items[k]
                IN /\ item.cls = res.cls
                   /\ item.path = PathJoin(res.parent.path, name)
                   /\ IsFileOnDisk(fs, item.path) = IsFile(res.cls)
                   /\ MatchesInFull(res.cls, name)
                   /\ item.variables = Update(FragmentMatch(res.cls, name).vars,
                                              res.parent.variables)

-----------------------------------------------------------------------------
(* The versions of a combined family as instances *)

\* the version records of the loaded data of family instance F
VersionRecords(F) ==
    LET Records(data) ==
          IF data.err = None /\ Has(data.val.map, "versions")
          THEN data.val.map["versions"] ELSE <<>>
    IN Records(CombinedFamilyLoad(fs, F))

\* C18 (as claimed): CombinedPackageResource.iter_instances(F) yields exactly
\* one instance per version record of F's loaded data, in the order of the
\* records, each at F's path and with F's bindings plus version set to the
\* text of the record's version.
C18_AsClaimed ==
    (/\ res.op = "iter_instances"
     /\ res.cls = "CombinedPackageResource"
     /\ CombinedFamilyLoad(fs, res.parent).err = None) =>
        /\ res.err = None
        /\ Len(res.items) = Len(VersionRecords(res.parent))
        /\ \A k \in 1..Len(res.items) :
              res.items[k] =
                 Instance("CombinedPackageResource", res.parent.path,
                          SetKey(res.parent.variables, "version",
                                 VersionStr(VersionRecords(res.parent)[k]["version"])))

-----------------------------------------------------------------------------
(* Independence of the compiled patterns of different classes *)

\* C19 (as claimed): what T.from_path(P) and T's own-fragment match give does
\* not depend on which other classes compiled their patterns earlier: with the
\* roots unchanged and T itself not compiled yet, the outcome is the one of a
\* process in which nothing was compiled, never that of a pattern a superclass
\* has stored.
C19_AsClaimed ==
    /\ (/\ res.op = "from_path"
        /\ res.changes = 0
        /\ ~res.before[res.cls]["full"].set) =>
           LET Same(r) == r.err = res.err /\ r.inst = res.inst
           IN Same(FromPath(res.cls, res.path, EmptyCompiled, res.roots))
    /\ (/\ res.op = "parse_filepart"
        /\ res.changes = 0
        /\ ~res.before[res.cls]["own"].set) =>
           LET Same(r) == r.err = res.err /\ r.match = res.match
           IN Same(ParseFilepart(res.cls, res.path, EmptyCompiled, res.roots))

-----------------------------------------------------------------------------
(* The children index and the config versions *)

\* the classes registered under version v that name T as their parent, in
\* the order of their registration
RegisteredChildren(v, T) ==
    LET HasParent(c) == ParentResource(c) = T
    IN SelectSeq(configs[v], HasParent)

\* C20 (as claimed): for a config version v with registrations, the children
\* index a walk consults for class T holds exactly the classes registered
\* under v with parent T, once each, in registration order; a registration
\* under another version adds nothing to it.
C20_AsClaimed ==
    \A v \in ConfigVersions :
        configs[v] # <<>> =>
            \A T \in Classes : children[T] = RegisteredChildren(v, T)

-----------------------------------------------------------------------------
(* The shape of the loaded data of a combined family *)

\* C21 (as claimed): for every family file that passes the schema, a versions
\* list that is empty included, the mapping CombinedPackageFamilyResource.load
\* returns has a 'versions' key holding the per-version records and no
\* 'version_overrides' key, no record has a 'versions' or 'version_overrides'
\* key, and CombinedPackageResource.iter_instances never fails for a missing
\* key.
C21_AsClaimed ==
    /\ FamilyLoaded =>
          /\ Has(res.val.map, "versions")
          /\ ~Has(res.val.map, "version_overrides")
          /\ \A k \in 1..Len(res.val.map["versions"]) :
                /\ ~Has(res.val.map["versions"][k], "versions")
                /\ ~Has(res.val.map["versions"][k], "version_overrides")
    /\ (res.op = "iter_instances" /\ res.cls = "CombinedPackageResource") =>
          res.err # "KeyError"

====
